---- MODULE Spec2Model ----
(***************************************************************************)
(* Model of the hive-plugin synchronisation core: the offline operation    *)
(* queue, the write interceptor (both the optimistic-concurrency build and *)
(* the offline-queue build), the sync engine's single-file primitives and  *)
(* the plugin's connect / disconnect / flush life cycle.                   *)
(*                                                                         *)
(* Specifications:                                                         *)
(*   SpecOQ     the OfflineQueue class driven by arbitrary enqueue/clear   *)
(*   SpecFlush  offline-queue interceptor + flushOfflineQueue replay       *)
(*   SpecQ      the offline-queue plugin's connection life cycle           *)
(*   SpecOffline  either interceptor, subscribed, with the socket down      *)
(*   Spec       hash-aware interceptor + sync engine, connected session    *)
(*   SpecGuard  programmatic writes (pullFile, deleteLocal) and the       *)
(*              suppression set while the interceptor is subscribed        *)
(*   SpecSync   one SyncEngine.initialSync run, both engine builds         *)
(*   SpecPolicy initialSync followed by user edits, path policy included   *)
(*   SpecCollab hash-aware interceptor with paths owned by a live session  *)
(*   SpecReq    SocketClient.request: timer against acknowledgement        *)
(*   SpecMerge  mergeCanvasModels over two models built entity by entity   *)
(*   SpecCanon  canonicalize / serialize / parse of one canvas model       *)
(*   SpecFollow the follow-mode reducer driven by its controller           *)
(*   SpecRace   hash-aware interceptor with overlapping modify handlers    *)
(*   SpecSuppress  user edits beside a programmatic write, socket up/down *)
(***************************************************************************)
EXTENDS Naturals, Sequences, FiniteSets, Bags, TLC

VARIABLES
  vault,            \* local file store: path -> content | Absent
  remote,           \* remote authoritative store: path -> content | Absent
  fileCache,        \* SyncEngine.fileCache: path -> content | None
  fileHashCache,    \* SyncEngine.fileHashCache: path -> hash | None
  suppressedPaths,  \* suppressedPaths.ts: the process-wide Set
  connected,        \* SocketClient.connected
  inflight,         \* requests sent and not yet answered, with their continuation
  done,             \* the handler that finished in the last step (history)
  ops,              \* OfflineQueue.ops
  arrived,          \* every op handed to enqueue since the last clear (history)
  lastOp,           \* the op handed to the last enqueue call (history)
  pc,               \* position of the plugin / of flushOfflineQueue
  registered,       \* WriteInterceptor.register() is in effect
  flushIdx,         \* index of the next op flushOfflineQueue replays
  flushOps,         \* the ops array flushOfflineQueue iterates
  affectedPaths,    \* flushOfflineQueue's affectedPaths
  skipPaths,        \* the skip set flushOfflineQueue returned for initialSync
  sent,             \* requests issued by flushOfflineQueue, in order (history)
  failed,           \* indices of flushOps whose replay request failed (history)
  shadow,           \* remote store under an uncoalesced replay (history)
  stale,            \* an onConnect of a torn-down connection is still suspended
  build,            \* which WriteInterceptor the plugin is built with
  collabPaths,      \* paths the live-editing session owns (getCollabPaths())
  writes,           \* programmatic vault writes begun and not returned (a bag)
  echoed,           \* paths of requests sent for self-inflicted events (history)
  sync,             \* the running SyncEngine.initialSync call
  reqs,             \* promises returned by SocketClient.request
  canvas,           \* the canvas models handed to the merge engine and its result
  follow            \* the FollowState held by the follow-mode reducer's caller

vars == <<vault, remote, fileCache, fileHashCache, suppressedPaths, connected,
          inflight, done, ops, arrived, lastOp, pc, registered, flushIdx,
          flushOps, affectedPaths, skipPaths, sent, failed, shadow, stale, build,
          collabPaths, writes, echoed, sync, reqs, canvas, follow>>

storeVars == <<vault, remote, fileCache, fileHashCache, suppressedPaths,
               connected, inflight, done>>
queueVars == <<ops, arrived, lastOp>>
auxVars == <<collabPaths, writes, echoed, sync, reqs, canvas, follow>>
lifeVars == <<pc, registered, flushIdx, flushOps, affectedPaths, skipPaths,
              sent, failed, shadow, stale, build>>
flushVars == <<lifeVars, auxVars>>

-----------------------------------------------------------------------------
(* Bounds and value universes *)

MaxEnqueued == 3
MaxInFlight == 1

Paths == {"a.md", "b.md"}
Contents == {"u", "v"}
Absent == "absent"
None == "none"
NoOp == [type |-> "none"]

-----------------------------------------------------------------------------
(* OfflineQueue (offlineGuard.ts 206-256) *)

ModifyOp(p, c) == [type |-> "modify", path |-> p, content |-> c]
CreateOp(p, c) == [type |-> "create", path |-> p, content |-> c]
DeleteOp(p) == [type |-> "delete", path |-> p]
RenameOp(o, n) == [type |-> "rename", oldPath |-> o, newPath |-> n]

QueuedOp ==
  {ModifyOp(p, c) : p \in Paths, c \in Contents}
    \cup {CreateOp(p, c) : p \in Paths, c \in Contents}
    \cup {DeleteOp(p) : p \in Paths}
    \cup {RenameOp(r[1], r[2]) : r \in {x \in Paths \X Paths : x[1] # x[2]}}

IsContentOp(o) == o.type = "modify" \/ o.type = "create"

\* Array.prototype.findIndex: the first index whose entry is a modify/create
\* for the path, 0 (for -1) when there is none.
findIndex(q, p) ==
  LET hits == {i \in 1..Len(q) : IsContentOp(q[i]) /\ q[i].path = p}
  IN IF hits = {} THEN 0 ELSE CHOOSE i \in hits : \A j \in hits : i <= j

\* A coalescing that moves the replaced entry to the end of the queue.
enqueueMoveToEnd(q, op) ==
  IF IsContentOp(op) /\ findIndex(q, op.path) # 0
  THEN Append(SubSeq(q, 1, findIndex(q, op.path) - 1)
                \o SubSeq(q, findIndex(q, op.path) + 1, Len(q)), op)
  ELSE Append(q, op)

\* A queue that never coalesces.
enqueueAppendOnly(q, op) == Append(q, op)

enqueue(q, op) ==
  IF IsContentOp(op) /\ findIndex(q, op.path) # 0
  THEN [q EXCEPT ![findIndex(q, op.path)] = op]
  ELSE Append(q, op)

getOps(q) == q

RECURSIVE getAffectedPaths(_)
getAffectedPaths(q) ==
  IF q = <<>> THEN {}
  ELSE LET op == Head(q)
       IN (IF op.type = "rename" THEN {op.oldPath, op.newPath} ELSE {op.path})
            \cup getAffectedPaths(Tail(q))

clear(q) == <<>>

isEmpty(q) == Len(q) = 0

-----------------------------------------------------------------------------
(* Policy filter, hashing, known-state cache (suppressedPaths.ts 20-185) *)

\* The paths of the model: those of Paths carry an allowed extension and
\* no denied prefix; the third lies under a denied prefix.
Denied == "Attachments/c.md"
SyncPaths == Paths \cup {Denied}

\* path.slice(path.lastIndexOf('.')).toLowerCase(), "" without a dot
extOf(p) == IF p \in {"a.md", "b.md", "Attachments/c.md"} THEN ".md" ELSE ""

\* the leading folder of the path, as startsWith(prefix) sees it
prefixOf(p) == IF p = "Attachments/c.md" THEN "Attachments/" ELSE ""

ALLOW_EXTS == {".md", ".canvas"}
DENY_PREFIXES ==
  IF build = "hash"
  THEN {".obsidian/", ".hive-history/", "Attachments/", ".git/"}
  ELSE {".obsidian/", "Attachments/", ".git/", ".hive/", ".hive-quarantine/"}

\* isMetadataAllowedPath (the hash build's extra allowance) holds of no
\* modelled path, so the filter is the prefix test followed by the extension test
isAllowed(p) ==
  IF prefixOf(p) \in DENY_PREFIXES THEN FALSE
  ELSE IF extOf(p) = "" THEN FALSE
  ELSE extOf(p) \in ALLOW_EXTS

\* sha256 of the content, as an injective tag.
hashContent(c) == IF c = "u" THEN "h-u" ELSE IF c = "v" THEN "h-v" ELSE None

\* a check that finds no path suppressed
isSuppressedNever(p) == FALSE

isSuppressed(p) == p \in suppressedPaths

\* a getKnownHash that never knows a hash
getKnownHashNull(p) == None

getKnownHash(p) == fileHashCache[p]

-----------------------------------------------------------------------------
(* The remote store behind SocketClient.request *)

WriteReq(p, c, h) ==
  [req |-> "file-write", path |-> p, content |-> c, expectedHash |-> h]
CreateReq(p, c) == [req |-> "file-create", path |-> p, content |-> c]
DeleteReq(p) == [req |-> "file-delete", path |-> p]
RenameReq(o, n) == [req |-> "file-rename", oldPath |-> o, newPath |-> n]
ReadReq(p) == [req |-> "file-read", path |-> p]

\* A file-write whose expectedHash is not the hash of what the store holds.
ServerConflict(store, r) ==
  /\ r.req = "file-write"
  /\ r.expectedHash # None
  /\ r.expectedHash # hashContent(store[r.path])

\* The store can carry the request out.
ServerAccepts(store, r) ==
  CASE r.req = "file-write" -> ~ServerConflict(store, r)
    [] r.req = "file-create" -> TRUE
    [] r.req = "file-delete" -> store[r.path] # Absent
    [] r.req = "file-rename" -> store[r.oldPath] # Absent
    [] r.req = "file-read" -> store[r.path] # Absent

\* The store after it carried the request out.
ServerApply(store, r) ==
  CASE r.req = "file-write" -> [store EXCEPT ![r.path] = r.content]
    [] r.req = "file-create" -> [store EXCEPT ![r.path] = r.content]
    [] r.req = "file-delete" -> [store EXCEPT ![r.path] = Absent]
    [] r.req = "file-rename" ->
         [store EXCEPT ![r.newPath] = store[r.oldPath], ![r.oldPath] = Absent]
    [] r.req = "file-read" -> store

-----------------------------------------------------------------------------
(* Initial values shared by the specifications *)

EmptyStore == [p \in Paths |-> Absent]
EmptyCache == [p \in Paths |-> None]
NoDone == [op |-> "none"]

StoreIdle ==
  /\ vault = EmptyStore
  /\ remote = EmptyStore
  /\ fileCache = EmptyCache
  /\ fileHashCache = EmptyCache
  /\ suppressedPaths = {}
  /\ connected = FALSE
  /\ inflight = {}
  /\ done = NoDone

QueueIdle ==
  /\ ops = <<>>
  /\ arrived = <<>>
  /\ lastOp = NoOp

FlushIdle ==
  /\ flushIdx = 0
  /\ flushOps = <<>>
  /\ affectedPaths = {}
  /\ skipPaths = {}
  /\ sent = <<>>
  /\ failed = {}
  /\ shadow = EmptyStore
  /\ stale = FALSE

NoSync == [pc |-> "idle"]
NoCanvas == [pc |-> "idle"]

\* initialFollowState(); a null targetUserId, location or reason is "null"
initialFollowState ==
  [state |-> "off", targetUserId |-> "null", mode |-> "cursor",
   location |-> "null", reason |-> "null"]

AuxIdle ==
  /\ collabPaths = {}
  /\ writes = EmptyBag
  /\ echoed = {}
  /\ sync = NoSync
  /\ reqs = <<>>
  /\ canvas = NoCanvas
  /\ follow = initialFollowState

-----------------------------------------------------------------------------
(* Handler bookkeeping *)

\* What the handler that has just finished did: the event (op, path, the
\* content the file was given; from is the old path of a rename), how its
\* push ended (result: "offline" when none was sent, else "ok", "conflict"
\* or "error"), what the handler then did (outcome), and what the cache
\* and the file held when it did so.
Done(op, o, p, c, result, outcome) ==
  [op |-> op, from |-> o, path |-> p, content |-> c, result |-> result,
   outcome |-> outcome, cached |-> fileCache[p], was |-> vault[p]]

\* A request awaiting its response, with the handler suspended on it.
Task(h, r) == [handler |-> h, request |-> r]

\* The requests that may be outstanding at once. The socket sets no limit
\* (SocketClient.request, settings.ts 337-366, emits at once); the sessions
\* studied here allow MaxInFlight, and one more where handlers are left to
\* overlap (pc = "racing").
InFlightLimit == IF pc = "racing" THEN MaxInFlight + 1 ELSE MaxInFlight

CanSend == Cardinality(inflight) < InFlightLimit

\* suppress(p) ... finally unsuppress(p): the set once the write is over.
afterSuppressedWrite(S) == (suppressedPaths \cup S) \ S

\* a revert that leaves the file as the edit made it
revertFileNoWrite(store, p, wrote) == store

\* revertFile: nothing when no content is cached for p, else
\* vault.modify(file, cached) inside suppress / unsuppress. The write to a
\* file that is no longer at p either fails or puts the file back (wrote).
revertFile(store, p, wrote) ==
  IF fileCache[p] = None \/ (store[p] = Absent /\ ~wrote)
  THEN store
  ELSE [store EXCEPT ![p] = fileCache[p]]

\* The outcomes of the revert's write: open only when a failed modify is
\* handled for a file that is no longer at its path.
WriteOutcomes(t, isFailure) ==
  IF isFailure /\ t.handler = "modify" /\ vault[t.request.path] = Absent
  THEN BOOLEAN
  ELSE {TRUE}

-----------------------------------------------------------------------------
(* WriteInterceptor, offline-queue build (collabThreadsView.ts 134-297) *)

\* offline branch that forgets to enqueue
offlineEnqueueDropped(op) ==
  /\ Len(arrived) < MaxEnqueued
  /\ UNCHANGED ops
  /\ arrived' = Append(arrived, op)
  /\ lastOp' = op

\* this.offlineQueue.enqueue(op) from a handler's offline branch
offlineEnqueue(op) ==
  /\ Len(arrived) < MaxEnqueued
  /\ ops' = enqueue(ops, op)
  /\ arrived' = Append(arrived, op)
  /\ lastOp' = op

\* onModify for the 'modify' event of p, whose content is now c
onModifyB(p, c) ==
  IF ~registered \/ isSuppressed(p) \/ ~isAllowed(p) \/ p \in collabPaths
  THEN done' = NoDone /\ UNCHANGED <<inflight, queueVars>>
  ELSE IF ~connected
  THEN /\ offlineEnqueue(ModifyOp(p, c))
       /\ done' = Done("modify", p, p, c, "offline", "queued")
       /\ UNCHANGED inflight
  ELSE /\ CanSend
       /\ inflight' = inflight \cup {Task("modify", WriteReq(p, c, None))}
       /\ done' = NoDone
       /\ UNCHANGED queueVars

onCreateB(p, c) ==
  IF ~registered \/ isSuppressed(p) \/ ~isAllowed(p)
  THEN done' = NoDone /\ UNCHANGED <<inflight, queueVars>>
  ELSE IF ~connected
  THEN /\ offlineEnqueue(CreateOp(p, c))
       /\ done' = Done("create", p, p, c, "offline", "queued")
       /\ UNCHANGED inflight
  ELSE /\ CanSend
       /\ inflight' = inflight \cup {Task("create", CreateReq(p, c))}
       /\ done' = NoDone
       /\ UNCHANGED queueVars

onDeleteB(p) ==
  IF ~registered \/ isSuppressed(p) \/ ~isAllowed(p)
  THEN done' = NoDone /\ UNCHANGED <<inflight, queueVars>>
  ELSE IF ~connected
  THEN /\ offlineEnqueue(DeleteOp(p))
       /\ done' = Done("delete", p, p, Absent, "offline", "queued")
       /\ UNCHANGED inflight
  ELSE /\ CanSend
       /\ inflight' = inflight \cup {Task("delete", DeleteReq(p))}
       /\ done' = NoDone
       /\ UNCHANGED queueVars

onRenameB(o, n) ==
  IF \/ ~registered
     \/ isSuppressed(n) \/ isSuppressed(o)
     \/ (~isAllowed(o) /\ ~isAllowed(n))
  THEN done' = NoDone /\ UNCHANGED <<inflight, queueVars>>
  ELSE IF ~connected
  THEN /\ offlineEnqueue(RenameOp(o, n))
       /\ done' = Done("rename", o, n, vault[o], "offline", "queued")
       /\ UNCHANGED inflight
  ELSE /\ CanSend
       /\ inflight' = inflight \cup {Task("rename", RenameReq(o, n))}
       /\ done' = NoDone
       /\ UNCHANGED queueVars

\* The local file store changes and emits the event to the interceptor.
LocalModifyB(p, c) ==
  /\ vault[p] # Absent
  /\ vault' = [vault EXCEPT ![p] = c]
  /\ onModifyB(p, c)
  /\ UNCHANGED <<remote, fileCache, fileHashCache, suppressedPaths, connected,
                 flushVars>>

LocalCreateB(p, c) ==
  /\ vault[p] = Absent
  /\ vault' = [vault EXCEPT ![p] = c]
  /\ onCreateB(p, c)
  /\ UNCHANGED <<remote, fileCache, fileHashCache, suppressedPaths, connected,
                 flushVars>>

LocalDeleteB(p) ==
  /\ vault[p] # Absent
  /\ vault' = [vault EXCEPT ![p] = Absent]
  /\ onDeleteB(p)
  /\ UNCHANGED <<remote, fileCache, fileHashCache, suppressedPaths, connected,
                 flushVars>>

LocalRenameB(o, n) ==
  /\ o # n
  /\ vault[o] # Absent
  /\ vault[n] = Absent
  /\ vault' = [vault EXCEPT ![n] = vault[o], ![o] = Absent]
  /\ onRenameB(o, n)
  /\ UNCHANGED <<remote, fileCache, fileHashCache, suppressedPaths, connected,
                 flushVars>>

\* The response to t arrives (ok), or the request is rejected or times out.
RespondB(t, ok, wrote) ==
  /\ t \in inflight
  /\ ok => (connected /\ ServerAccepts(remote, t.request))
  /\ inflight' = inflight \ {t}
  /\ remote' = IF ok THEN ServerApply(remote, t.request) ELSE remote
  /\ LET r == t.request
         res == IF ok THEN "ok" ELSE "error" IN
     CASE t.handler = "modify" ->
            IF ok
            THEN /\ fileCache' = [fileCache EXCEPT ![r.path] = r.content]
                 /\ done' = Done("modify", r.path, r.path, r.content, res,
                                 "accepted")
                 /\ UNCHANGED <<vault, suppressedPaths>>
            ELSE /\ vault' = revertFile(vault, r.path, wrote)
                 /\ suppressedPaths' =
                      IF fileCache[r.path] = None THEN suppressedPaths
                      ELSE afterSuppressedWrite({r.path})
                 /\ done' = Done("modify", r.path, r.path, r.content, res,
                                 IF fileCache[r.path] = None THEN "none"
                                 ELSE "reverted")
                 /\ UNCHANGED fileCache
       [] t.handler = "create" ->
            /\ fileCache' = IF ok THEN [fileCache EXCEPT ![r.path] = r.content]
                            ELSE fileCache
            /\ done' = Done("create", r.path, r.path, r.content, res,
                            IF ok THEN "accepted" ELSE "none")
            /\ UNCHANGED <<vault, suppressedPaths>>
       [] t.handler = "delete" ->
            /\ fileCache' = IF ok THEN [fileCache EXCEPT ![r.path] = None]
                            ELSE fileCache
            /\ done' = Done("delete", r.path, r.path, Absent, res,
                            IF ok THEN "accepted" ELSE "none")
            /\ UNCHANGED <<vault, suppressedPaths>>
       [] t.handler = "rename" ->
            /\ fileCache' =
                 IF ok /\ fileCache[r.oldPath] # None
                 THEN [fileCache EXCEPT ![r.newPath] = fileCache[r.oldPath],
                                        ![r.oldPath] = None]
                 ELSE fileCache
            /\ done' = Done("rename", r.oldPath, r.newPath, Absent, res,
                            IF ok THEN "accepted" ELSE "none")
            /\ UNCHANGED <<vault, suppressedPaths>>
  /\ UNCHANGED <<fileHashCache, connected, queueVars, flushVars>>

-----------------------------------------------------------------------------
(* SyncEngine single-file primitives (suppressedPaths.ts 136-185; the      *)
(* offline-queue build's engine, part_009 167-201, keeps no hash cache)     *)

\* a recordKnownState that keeps what is already known of p
recordedContentKeepFirst(p, c) ==
  IF fileCache[p] # None THEN fileCache ELSE [fileCache EXCEPT ![p] = c]

\* recordKnownState(p, c, h)
recordedContent(p, c) == [fileCache EXCEPT ![p] = c]

recordedHash(p, h) ==
  IF build = "hash" THEN [fileHashCache EXCEPT ![p] = h] ELSE fileHashCache

\* a clearKnownState that keeps the content
clearedContentKept(p) == fileCache

\* clearKnownState(p)
clearedContent(p) == [fileCache EXCEPT ![p] = None]

clearedHash(p) ==
  IF build = "hash" THEN [fileHashCache EXCEPT ![p] = None] ELSE fileHashCache

\* pullFile(p) up to its request
pullFile(p) ==
  /\ CanSend
  /\ inflight' = inflight \cup {Task("pull", ReadReq(p))}

\* pullFile after its file-read was answered with the store's content:
\* vault.modify or vault.create under suppression, then the known state.
pulled(p) ==
  /\ vault' = [vault EXCEPT ![p] = remote[p]]
  /\ suppressedPaths' = afterSuppressedWrite({p})
  /\ fileCache' = recordedContent(p, remote[p])
  /\ fileHashCache' = recordedHash(p, hashContent(remote[p]))

\* onFileUpdated / onFileCreated / onExternalUpdate: pullFile(p)
OnFileUpdated(p) ==
  /\ connected
  /\ pullFile(p)
  /\ done' = NoDone
  /\ UNCHANGED <<vault, remote, fileCache, fileHashCache, suppressedPaths,
                 connected, queueVars, flushVars>>

\* onFileDeleted: deleteLocal(p), which returns when the file is not there.
OnFileDeleted(p) ==
  /\ connected
  /\ remote[p] = Absent
  /\ IF vault[p] = Absent
     THEN UNCHANGED <<vault, suppressedPaths, fileCache, fileHashCache>>
     ELSE /\ vault' = [vault EXCEPT ![p] = Absent]
          /\ suppressedPaths' = afterSuppressedWrite({p})
          /\ fileCache' = clearedContent(p)
          /\ fileHashCache' = clearedHash(p)
  /\ done' = Done("deleteLocal", p, p, Absent, "push",
                  IF vault[p] = Absent THEN "none" ELSE "deleted")
  /\ UNCHANGED <<remote, connected, inflight, queueVars, flushVars>>

\* The answer to a pull's file-read.
RespondPull(t, ok) ==
  /\ t \in inflight
  /\ t.handler = "pull"
  /\ ok => (connected /\ ServerAccepts(remote, t.request))
  /\ inflight' = inflight \ {t}
  /\ IF ok
     THEN /\ pulled(t.request.path)
          /\ done' = Done("pull", t.request.path, t.request.path,
                          remote[t.request.path], "ok", "pulled")
     ELSE /\ done' = Done("pull", t.request.path, t.request.path, Absent,
                          "error", "none")
          /\ UNCHANGED <<vault, suppressedPaths, fileCache, fileHashCache>>
  /\ UNCHANGED <<remote, connected, queueVars, flushVars>>

-----------------------------------------------------------------------------
(* WriteInterceptor, hash-aware build (writeInterceptor.ts 6-191) *)

\* The handler suspended on the pull that follows a rejected write of c.
ConflictPull(p, c) ==
  [handler |-> "conflictPull", request |-> ReadReq(p), content |-> c]

\* a CONFLICT answered by rewriting the file with the cached content
afterConflictReverts(t) ==
  /\ inflight' = inflight \ {t}
  /\ vault' = revertFile(vault, t.request.path, TRUE)
  /\ done' = Done("modify", t.request.path, t.request.path,
                  t.request.content, "conflict", "reverted")
  /\ UNCHANGED <<suppressedPaths, fileCache, fileHashCache>>

\* catch: err.code === 'CONFLICT' -> await this.syncEngine.pullFile(path)
afterConflict(t) ==
  /\ inflight' =
       (inflight \ {t}) \cup {ConflictPull(t.request.path, t.request.content)}
  /\ done' = NoDone
  /\ UNCHANGED <<vault, suppressedPaths, fileCache, fileHashCache>>

\* The 'modify' event of p, whose content is now c, and onModify up to its
\* request.
LocalModifyA(p, c) ==
  /\ vault[p] # Absent
  /\ LET edited == [vault EXCEPT ![p] = c] IN
     IF ~registered \/ isSuppressed(p) \/ ~isAllowed(p)
          \/ p \in collabPaths
     THEN /\ vault' = edited
          /\ done' = NoDone
          /\ UNCHANGED <<inflight, suppressedPaths>>
     ELSE IF ~connected
     THEN /\ vault' = revertFile(edited, p, TRUE)
          /\ suppressedPaths' = IF fileCache[p] = None THEN suppressedPaths
                                ELSE afterSuppressedWrite({p})
          /\ done' = Done("modify", p, p, c, "offline",
                          IF fileCache[p] = None THEN "none" ELSE "reverted")
          /\ UNCHANGED inflight
     ELSE /\ CanSend
          /\ vault' = edited
          /\ inflight' =
               inflight \cup {Task("modify", WriteReq(p, c, getKnownHash(p)))}
          /\ done' = NoDone
          /\ UNCHANGED suppressedPaths
  /\ UNCHANGED <<remote, fileCache, fileHashCache, connected, queueVars,
                 flushVars>>

\* The 'create' event and onCreate; offline, the new file is deleted again.
LocalCreateA(p, c) ==
  /\ vault[p] = Absent
  /\ LET created == [vault EXCEPT ![p] = c] IN
     IF ~registered \/ isSuppressed(p) \/ ~isAllowed(p)
     THEN /\ vault' = created
          /\ done' = NoDone
          /\ UNCHANGED <<inflight, suppressedPaths>>
     ELSE IF ~connected
     THEN /\ vault' = [created EXCEPT ![p] = Absent]
          /\ suppressedPaths' = afterSuppressedWrite({p})
          /\ done' = Done("create", p, p, c, "offline", "reverted")
          /\ UNCHANGED inflight
     ELSE /\ CanSend
          /\ vault' = created
          /\ inflight' = inflight \cup {Task("create", CreateReq(p, c))}
          /\ done' = NoDone
          /\ UNCHANGED suppressedPaths
  /\ UNCHANGED <<remote, fileCache, fileHashCache, connected, queueVars,
                 flushVars>>

\* The 'delete' event and onDelete; offline, the file is created again from
\* the cache when the cache has it.
LocalDeleteA(p) ==
  /\ vault[p] # Absent
  /\ LET deleted == [vault EXCEPT ![p] = Absent] IN
     IF ~registered \/ isSuppressed(p) \/ ~isAllowed(p)
     THEN /\ vault' = deleted
          /\ done' = NoDone
          /\ UNCHANGED <<inflight, suppressedPaths>>
     ELSE IF ~connected
     THEN /\ vault' = IF fileCache[p] = None THEN deleted
                      ELSE [deleted EXCEPT ![p] = fileCache[p]]
          /\ suppressedPaths' = IF fileCache[p] = None THEN suppressedPaths
                                ELSE afterSuppressedWrite({p})
          /\ done' = Done("delete", p, p, Absent, "offline",
                          IF fileCache[p] = None THEN "none" ELSE "reverted")
          /\ UNCHANGED inflight
     ELSE /\ CanSend
          /\ vault' = deleted
          /\ inflight' = inflight \cup {Task("delete", DeleteReq(p))}
          /\ done' = NoDone
          /\ UNCHANGED suppressedPaths
  /\ UNCHANGED <<remote, fileCache, fileHashCache, connected, queueVars,
                 flushVars>>

\* The 'rename' event and onRename; offline, the file is renamed back.
LocalRenameA(o, n) ==
  /\ o # n
  /\ vault[o] # Absent
  /\ vault[n] = Absent
  /\ LET renamed == [vault EXCEPT ![n] = vault[o], ![o] = Absent] IN
     IF \/ ~registered
        \/ isSuppressed(n) \/ isSuppressed(o)
        \/ (~isAllowed(o) /\ ~isAllowed(n))
     THEN /\ vault' = renamed
          /\ done' = NoDone
          /\ UNCHANGED <<inflight, suppressedPaths>>
     ELSE IF ~connected
     THEN /\ vault' = [renamed EXCEPT ![o] = renamed[n], ![n] = Absent]
          /\ suppressedPaths' = afterSuppressedWrite({o, n})
          /\ done' = Done("rename", o, n, vault[o], "offline", "reverted")
          /\ UNCHANGED inflight
     ELSE /\ CanSend
          /\ vault' = renamed
          /\ inflight' = inflight \cup {Task("rename", RenameReq(o, n))}
          /\ done' = NoDone
          /\ UNCHANGED suppressedPaths
  /\ UNCHANGED <<remote, fileCache, fileHashCache, connected, queueVars,
                 flushVars>>

\* The answer to the request of t: accepted (ok), rejected as a conflict,
\* or failed (an error response, a network error, the 8 s timeout).
RespondA(t, res, wrote) ==
  /\ t \in inflight
  /\ t.handler # "pull"
  /\ res = "ok" => (connected /\ ServerAccepts(remote, t.request))
  /\ res = "conflict" =>
       (connected /\ t.handler = "modify" /\ ServerConflict(remote, t.request))
  /\ remote' = IF res = "ok" THEN ServerApply(remote, t.request) ELSE remote
  /\ LET r == t.request IN
     CASE t.handler = "modify" ->
            IF res = "ok"
            THEN   /\ inflight' = inflight \ {t}
                   /\ fileCache' = recordedContent(r.path, r.content)
                   /\ fileHashCache' =
                        recordedHash(r.path, hashContent(r.content))
                   /\ done' = Done("modify", r.path, r.path, r.content, res,
                                   "accepted")
                   /\ UNCHANGED <<vault, suppressedPaths>>
            ELSE IF res = "conflict"
            THEN afterConflict(t)
            ELSE   /\ inflight' = inflight \ {t}
                   /\ vault' = revertFile(vault, r.path, wrote)
                   /\ suppressedPaths' =
                        IF fileCache[r.path] = None THEN suppressedPaths
                        ELSE afterSuppressedWrite({r.path})
                   /\ done' = Done("modify", r.path, r.path, r.content, res,
                                   IF fileCache[r.path] = None THEN "none"
                                   ELSE "reverted")
                   /\ UNCHANGED <<fileCache, fileHashCache>>
       [] t.handler = "conflictPull" ->
            /\ inflight' = inflight \ {t}
            /\ IF res = "ok"
               THEN /\ pulled(r.path)
                    /\ done' = Done("modify", r.path, r.path, t.content,
                                    "conflict", "pulled")
               ELSE /\ done' = Done("modify", r.path, r.path, t.content,
                                    "conflict", "none")
                    /\ UNCHANGED <<vault, suppressedPaths, fileCache,
                                   fileHashCache>>
       [] t.handler = "create" ->
            /\ inflight' = inflight \ {t}
            /\ fileCache' = IF res = "ok"
                            THEN recordedContent(r.path, r.content)
                            ELSE fileCache
            /\ fileHashCache' =
                 IF res = "ok"
                 THEN recordedHash(r.path, hashContent(r.content))
                 ELSE fileHashCache
            /\ done' = Done("create", r.path, r.path, r.content, res,
                            IF res = "ok" THEN "accepted" ELSE "none")
            /\ UNCHANGED <<vault, suppressedPaths>>
       [] t.handler = "delete" ->
            /\ inflight' = inflight \ {t}
            /\ fileCache' = IF res = "ok" THEN clearedContent(r.path)
                            ELSE fileCache
            /\ fileHashCache' = IF res = "ok" THEN clearedHash(r.path)
                                ELSE fileHashCache
            /\ done' = Done("delete", r.path, r.path, Absent, res,
                            IF res = "ok" THEN "accepted" ELSE "none")
            /\ UNCHANGED <<vault, suppressedPaths>>
       [] t.handler = "rename" ->
            LET cached == fileCache[r.oldPath]
                knownHash == getKnownHash(r.oldPath) IN
            /\ inflight' = inflight \ {t}
            /\ fileCache' =
                 IF res # "ok" THEN fileCache
                 ELSE IF cached # None
                 THEN [fileCache EXCEPT ![r.newPath] = cached,
                                        ![r.oldPath] = None]
                 ELSE [fileCache EXCEPT ![r.oldPath] = None]
            /\ fileHashCache' =
                 IF res # "ok" THEN fileHashCache
                 ELSE IF cached # None /\ knownHash # None
                 THEN [fileHashCache EXCEPT ![r.newPath] = knownHash,
                                            ![r.oldPath] = None]
                 ELSE IF cached # None
                 THEN [fileHashCache EXCEPT ![r.newPath] = hashContent(cached),
                                            ![r.oldPath] = None]
                 ELSE [fileHashCache EXCEPT ![r.oldPath] = None]
            /\ done' = Done("rename", r.oldPath, r.newPath, Absent, res,
                            IF res = "ok" THEN "accepted" ELSE "none")
            /\ UNCHANGED <<vault, suppressedPaths>>
  /\ UNCHANGED <<connected, queueVars, flushVars>>

-----------------------------------------------------------------------------
(* HivePlugin.flushOfflineQueue (part_006 918-942) *)

RequestOf(op) ==
  CASE op.type = "modify" -> WriteReq(op.path, op.content, None)
    [] op.type = "create" -> CreateReq(op.path, op.content)
    [] op.type = "delete" -> DeleteReq(op.path)
    [] op.type = "rename" -> RenameReq(op.oldPath, op.newPath)

OpPaths(op) ==
  IF op.type = "rename" THEN {op.oldPath, op.newPath} ELSE {op.path}

\* The remote store after every op of q was sent in order, each carried out
\* when the store can carry it out.
RECURSIVE ReplayAll(_, _)
ReplayAll(q, store) ==
  IF q = <<>> THEN store
  ELSE ReplayAll(Tail(q),
                 IF ServerAccepts(store, RequestOf(Head(q)))
                 THEN ServerApply(store, RequestOf(Head(q)))
                 ELSE store)

\* Every op of q is carried out when q is sent in order.
RECURSIVE AllAccepted(_, _)
AllAccepted(q, store) ==
  \/ q = <<>>
  \/ /\ ServerAccepts(store, RequestOf(Head(q)))
     /\ AllAccepted(Tail(q), ServerApply(store, RequestOf(Head(q))))

RejectedStore == [p \in Paths |-> "rejected"]

\* a flush that gives up at the first failed replay
nextAfterFailureAbort(i) == Len(flushOps) + 1

\* catch (err) { console.error(...) }: the loop goes on with the next op
nextAfterFailure(i) == i + 1

\* a flush that hands initialSync only the paths whose replay succeeded
flushResultSucceededOnly ==
  UNION {OpPaths(flushOps[i]) : i \in (1..Len(flushOps)) \ failed}

\* return affectedPaths
flushResult == affectedPaths

\* flushOfflineQueue up to its loop: the early return, or the snapshot of
\* the affected paths and of the ops.
FlushBegin ==
  IF isEmpty(ops) \/ ~connected'
  THEN /\ pc' = "flushed"
       /\ skipPaths' = {}
       /\ flushOps' = <<>>
       /\ flushIdx' = 0
       /\ affectedPaths' = {}
       /\ UNCHANGED <<sent, failed, shadow>>
  ELSE /\ pc' = "flush"
       /\ affectedPaths' = getAffectedPaths(ops)
       /\ flushOps' = getOps(ops)
       /\ flushIdx' = 1
       /\ sent' = <<>>
       /\ failed' = {}
       /\ shadow' = IF AllAccepted(arrived, remote)
                    THEN ReplayAll(arrived, remote)
                    ELSE RejectedStore
       /\ UNCHANGED skipPaths

\* One iteration of the for loop: the request for the op and its outcome.
FlushReplay(ok) ==
  /\ pc = "flush"
  /\ flushIdx <= Len(flushOps)
  /\ LET r == RequestOf(flushOps[flushIdx]) IN
       /\ ok => (connected /\ ServerAccepts(remote, r))
       /\ sent' = Append(sent, r)
       /\ remote' = IF ok THEN ServerApply(remote, r) ELSE remote
       /\ failed' = IF ok THEN failed ELSE failed \cup {flushIdx}
       /\ flushIdx' = IF ok THEN flushIdx + 1 ELSE nextAfterFailure(flushIdx)
  /\ done' = NoDone
  /\ UNCHANGED <<vault, fileCache, fileHashCache, suppressedPaths, connected,
                 inflight, queueVars, pc, registered, flushOps, affectedPaths,
                 skipPaths, shadow, stale, build, auxVars>>

\* After the loop: this.offlineQueue.clear(); return affectedPaths, which
\* onConnect hands to initialSync as its skip set.
FlushEnd ==
  /\ pc = "flush"
  /\ flushIdx > Len(flushOps)
  /\ ops' = clear(ops)
  /\ arrived' = <<>>
  /\ lastOp' = NoOp
  /\ skipPaths' = flushResult
  /\ pc' = "flushed"
  /\ done' = NoDone
  /\ UNCHANGED <<vault, remote, fileCache, fileHashCache, suppressedPaths,
                 connected, inflight, registered, flushIdx, flushOps,
                 affectedPaths, sent, failed, shadow, stale, build, auxVars>>

\* initialSync(skip) under the plugin's 'quarantine' strategy, every request
\* answered: paths outside the skip set are pulled when the manifest has
\* them with another hash, recorded when the hash is the same, and moved
\* to the quarantine root when only the local store has them.
syncedVault(skip) ==
  [p \in Paths |->
     IF p \in skip THEN vault[p]
     ELSE IF remote[p] # Absent THEN remote[p]
     ELSE Absent]

syncedCache(skip) ==
  [p \in Paths |->
     IF p \in skip THEN fileCache[p]
     ELSE IF remote[p] # Absent THEN remote[p]
     ELSE None]

\* onConnect after the flush (part_006 672-693): initialSync(skipPaths),
\* which throws when the manifest request fails and is then only logged,
\* and this.writeInterceptor.register().
OnConnectFinish(ok) ==
  /\ pc = "flushed"
  /\ pc' = "ready"
  /\ ok => connected
  /\ vault' = IF ok THEN syncedVault(skipPaths) ELSE vault
  /\ fileCache' = IF ok THEN syncedCache(skipPaths) ELSE fileCache
  /\ registered' = TRUE
  /\ flushOps' = <<>>
  /\ flushIdx' = 0
  /\ affectedPaths' = {}
  /\ sent' = <<>>
  /\ failed' = {}
  /\ shadow' = EmptyStore
  /\ skipPaths' = {}
  /\ done' = NoDone
  /\ UNCHANGED <<remote, fileHashCache, suppressedPaths, connected, inflight,
                 queueVars, stale, build, auxVars>>

-----------------------------------------------------------------------------
(* SpecFlush: the offline-queue interceptor with the socket down, then the  *)
(* socket's 'connect' and onConnect's flush of what was queued              *)

Stores == [Paths -> Contents \cup {Absent}]

CacheOf(store) == [p \in Paths |-> IF store[p] = Absent THEN None ELSE store[p]]

InitFlush ==
  /\ vault \in Stores
  /\ remote = vault
  /\ fileCache = CacheOf(vault)
  /\ fileHashCache = EmptyCache
  /\ suppressedPaths = {}
  /\ connected = FALSE
  /\ inflight = {}
  /\ done = NoDone
  /\ QueueIdle
  /\ FlushIdle
  /\ AuxIdle
  /\ pc = "down"
  /\ registered = TRUE
  /\ build = "queue"

\* The socket connects: onConnect starts and calls flushOfflineQueue. The
\* interceptor built by connect() is registered only when onConnect ends.
SocketConnectF ==
  /\ pc = "down"
  /\ inflight = {}
  /\ connected' = TRUE
  /\ registered' = FALSE
  /\ FlushBegin
  /\ done' = NoDone
  /\ UNCHANGED <<vault, remote, fileCache, fileHashCache, suppressedPaths,
                 inflight, queueVars, stale, build, auxVars>>

\* Local mutations are followed while the socket is down; the replay that
\* follows reads only the queue.
NextFlush ==
  \/ \E p \in Paths, c \in Contents : pc = "down" /\ LocalModifyB(p, c)
  \/ \E p \in Paths, c \in Contents : pc = "down" /\ LocalCreateB(p, c)
  \/ \E p \in Paths : pc = "down" /\ LocalDeleteB(p)
  \/ \E o \in Paths, n \in Paths : pc = "down" /\ LocalRenameB(o, n)
  \/ SocketConnectF
  \/ \E ok \in BOOLEAN : FlushReplay(ok)
  \/ FlushEnd
  \/ \E ok \in BOOLEAN : OnConnectFinish(ok)

SpecFlush == InitFlush /\ [][NextFlush]_vars

-----------------------------------------------------------------------------
(* SpecQ: the offline-queue plugin's connection life cycle (part_006        *)
(* 622-737, 893-942) around the offline-queue interceptor                   *)

\* teardownConnection: the queue is cleared, the interceptor unsubscribed
\* and dropped, the socket disconnected.
teardownConnection ==
  /\ ops' = clear(ops)
  /\ arrived' = <<>>
  /\ lastOp' = NoOp
  /\ registered' = FALSE
  /\ connected' = FALSE

InitQ ==
  /\ vault \in Stores
  /\ remote = vault
  /\ fileCache = EmptyCache
  /\ fileHashCache = EmptyCache
  /\ suppressedPaths = {}
  /\ connected = FALSE
  /\ inflight = {}
  /\ done = NoDone
  /\ QueueIdle
  /\ FlushIdle
  /\ AuxIdle
  /\ pc = "down"
  /\ registered = FALSE
  /\ build = "queue"

\* connect(): teardownConnection(false), then a new socket, a new
\* SyncEngine and a new, unregistered WriteInterceptor. Requests of the
\* previous socket have been answered or have timed out by then.
ConnectQ ==
  /\ pc = "down"
  /\ inflight = {}
  /\ teardownConnection
  /\ fileCache' = EmptyCache
  /\ pc' = "connecting"
  /\ done' = NoDone
  /\ UNCHANGED <<vault, remote, fileHashCache, suppressedPaths, inflight,
                 flushIdx, flushOps, affectedPaths, skipPaths, sent, failed,
                 shadow, stale, build, auxVars>>

\* The socket's 'connect' event: onConnect runs up to the flush loop.
OnConnectQ ==
  /\ pc = "connecting"
  /\ ~stale
  /\ connected' = TRUE
  /\ FlushBegin
  /\ done' = NoDone
  /\ UNCHANGED <<vault, remote, fileCache, fileHashCache, suppressedPaths,
                 inflight, queueVars, registered, stale, build, auxVars>>

\* onConnectError with a token or vault error: teardownConnection(false).
OnConnectErrorQ ==
  /\ pc = "connecting"
  /\ teardownConnection
  /\ pc' = "down"
  /\ done' = NoDone
  /\ UNCHANGED <<vault, remote, fileCache, fileHashCache, suppressedPaths,
                 inflight, flushIdx, flushOps, affectedPaths, skipPaths, sent,
                 failed, shadow, stale, build, auxVars>>

\* The socket's 'disconnect' event: onDisconnect calls
\* teardownConnection(false). When onConnect is still suspended in
\* initialSync, its continuation stays pending.
OnDisconnectQ ==
  /\ pc \in {"flushed", "ready"}
  /\ teardownConnection
  /\ stale' = (stale \/ pc = "flushed")
  /\ pc' = "down"
  /\ flushOps' = <<>>
  /\ flushIdx' = 0
  /\ affectedPaths' = {}
  /\ sent' = <<>>
  /\ failed' = {}
  /\ shadow' = EmptyStore
  /\ skipPaths' = {}
  /\ done' = NoDone
  /\ UNCHANGED <<vault, remote, fileCache, fileHashCache, suppressedPaths,
                 inflight, build, auxVars>>

\* The suspended onConnect resumes after the teardown: its initialSync has
\* failed on the closed socket, and this.writeInterceptor!.register()
\* (part_006 693) acts on whatever interceptor the plugin holds by then:
\* none (a TypeError) or the one connect() has built since.
StaleOnConnectQ ==
  /\ stale
  /\ pc \in {"down", "connecting"}
  /\ stale' = FALSE
  /\ registered' = (pc = "connecting")
  /\ done' = NoDone
  /\ UNCHANGED <<vault, remote, fileCache, fileHashCache, suppressedPaths,
                 connected, inflight, queueVars, pc, flushIdx, flushOps,
                 affectedPaths, skipPaths, sent, failed, shadow, build, auxVars>>

\* Local mutations are followed while the interceptor is subscribed, before
\* the socket's 'connect' and once onConnect has ended.
Watched == registered /\ pc \in {"connecting", "ready"}

NextQ ==
  \/ \E p \in Paths, c \in Contents : Watched /\ LocalModifyB(p, c)
  \/ \E p \in Paths, c \in Contents : Watched /\ LocalCreateB(p, c)
  \/ \E p \in Paths : Watched /\ LocalDeleteB(p)
  \/ \E o \in Paths, n \in Paths : Watched /\ LocalRenameB(o, n)
  \/ \E t \in inflight, ok \in BOOLEAN :
       \E wrote \in WriteOutcomes(t, ~ok) : RespondB(t, ok, wrote)
  \/ ConnectQ
  \/ OnConnectQ
  \/ OnConnectErrorQ
  \/ \E ok \in BOOLEAN : FlushReplay(ok)
  \/ FlushEnd
  \/ \E ok \in BOOLEAN : OnConnectFinish(ok)
  \/ OnDisconnectQ
  \/ StaleOnConnectQ

SpecQ == InitQ /\ [][NextQ]_vars

-----------------------------------------------------------------------------
(* Spec: the subscribed hash-aware interceptor and its sync engine in a     *)
(* connected session: requests are accepted, rejected or lost, and other   *)
(* clients write to the remote store                                       *)

HashOf(store) == [p \in Paths |-> hashContent(store[p])]

\* onConnect has ended: the caches hold what initialSync recorded, or
\* nothing when its manifest request failed.
Init ==
  /\ vault \in Stores
  /\ remote = vault
  /\ build = "hash"
  /\ \/ /\ fileCache = CacheOf(vault)
        /\ fileHashCache = HashOf(vault)
     \/ /\ fileCache = EmptyCache
        /\ fileHashCache = EmptyCache
  /\ suppressedPaths = {}
  /\ connected = TRUE
  /\ inflight = {}
  /\ done = NoDone
  /\ QueueIdle
  /\ FlushIdle
  /\ AuxIdle
  /\ pc = "ready"
  /\ registered = TRUE

\* Another client's write, create or delete reaches the remote store.
RemoteEdit(p, c) ==
  /\ remote[p] # c
  /\ remote' = [remote EXCEPT ![p] = c]
  /\ done' = NoDone
  /\ UNCHANGED <<vault, fileCache, fileHashCache, suppressedPaths, connected,
                 inflight, queueVars, flushVars>>

Next ==
  \/ \E p \in Paths, c \in Contents : LocalModifyA(p, c)
  \/ \E p \in Paths, c \in Contents : LocalCreateA(p, c)
  \/ \E p \in Paths : LocalDeleteA(p)
  \/ \E o \in Paths, n \in Paths : LocalRenameA(o, n)
  \/ \E t \in inflight, res \in {"ok", "conflict", "error"} :
       \E wrote \in WriteOutcomes(t, res = "error") : RespondA(t, res, wrote)
  \/ \E p \in Paths : OnFileUpdated(p)
  \/ \E p \in Paths : OnFileDeleted(p)
  \/ \E t \in inflight, ok \in BOOLEAN : RespondPull(t, ok)
  \/ \E p \in Paths, c \in Contents \cup {Absent} : RemoteEdit(p, c)

Spec == Init /\ [][Next]_vars

-----------------------------------------------------------------------------
(* SpecOffline: a subscribed interceptor of either build while the socket  *)
(* is down                                                                 *)

\* The socket has dropped on a session that left any known state behind.
InitOffline ==
  /\ vault \in Stores
  /\ remote = vault
  /\ build \in {"hash", "queue"}
  /\ \E known \in Stores :
       /\ fileCache = CacheOf(known)
       /\ fileHashCache = IF build = "hash" THEN HashOf(known) ELSE EmptyCache
  /\ suppressedPaths = {}
  /\ connected = FALSE
  /\ inflight = {}
  /\ done = NoDone
  /\ QueueIdle
  /\ FlushIdle
  /\ AuxIdle
  /\ pc = "down"
  /\ registered = TRUE

NextOffline ==
  \/ \E p \in Paths, c \in Contents : build = "hash" /\ LocalModifyA(p, c)
  \/ \E p \in Paths, c \in Contents : build = "hash" /\ LocalCreateA(p, c)
  \/ \E p \in Paths : build = "hash" /\ LocalDeleteA(p)
  \/ \E o \in Paths, n \in Paths : build = "hash" /\ LocalRenameA(o, n)
  \/ \E p \in Paths, c \in Contents : build = "queue" /\ LocalModifyB(p, c)
  \/ \E p \in Paths, c \in Contents : build = "queue" /\ LocalCreateB(p, c)
  \/ \E p \in Paths : build = "queue" /\ LocalDeleteB(p)
  \/ \E o \in Paths, n \in Paths : build = "queue" /\ LocalRenameB(o, n)

SpecOffline == InitOffline /\ [][NextOffline]_vars


-----------------------------------------------------------------------------
(* SpecOQ: the OfflineQueue object under arbitrary calls *)

OQEnqueue(op) ==
  /\ Len(arrived) < MaxEnqueued
  /\ ops' = enqueue(ops, op)
  /\ arrived' = Append(arrived, op)
  /\ lastOp' = op
  /\ UNCHANGED <<storeVars, flushVars>>

OQClear ==
  /\ arrived # <<>>
  /\ ops' = clear(ops)
  /\ arrived' = <<>>
  /\ lastOp' = NoOp
  /\ UNCHANGED <<storeVars, flushVars>>

InitOQ ==
  /\ StoreIdle
  /\ QueueIdle
  /\ FlushIdle
  /\ AuxIdle
  /\ pc = "down"
  /\ registered = FALSE
  /\ build = "queue"

NextOQ ==
  \/ \E op \in QueuedOp : OQEnqueue(op)
  \/ OQClear

SpecOQ == InitOQ /\ [][NextOQ]_vars

-----------------------------------------------------------------------------
(* SpecGuard: the sync engine's programmatic writes (pullFile, deleteLocal) *)
(* taken step by step -- suppress, the vault call and its event, the       *)
(* return and the finally -- beside the subscribed hash-aware interceptor  *)
(* in a connected session. The vault dispatches the event of a write when  *)
(* it carries the write out, before the awaiting caller resumes. The       *)
(* remote store starts anywhere: other clients have written to it and the  *)
(* pushes announcing that are what calls pullFile and deleteLocal.         *)

MaxWrites == 2

\* A programmatic write between its suppress(p) and its finally: who
\* awaits it, the vault call (modify, create or delete), and whether the
\* vault has carried it out ("landed"), rejected it ("failed") or neither.
ProgWrite(caller, call, p, c) ==
  [caller |-> caller, call |-> call, path |-> p, content |-> c,
   state |-> "begun"]

CanWrite == BagCardinality(writes) < MaxWrites

guardFrame == <<connected, queueVars, lifeVars, collabPaths, sync, reqs, canvas,
               follow>>

\* pullFile resumed by the answer to its file-read: on failure the catch
\* logs; else suppress(relPath) and vault.modify / vault.create is awaited.
PullAnswered(t, ok) ==
  /\ t \in inflight
  /\ t.handler = "pull"
  /\ ok => (connected /\ ServerAccepts(remote, t.request))
  /\ inflight' = inflight \ {t}
  /\ LET p == t.request.path IN
     IF ok
     THEN /\ CanWrite
          /\ suppressedPaths' = suppressedPaths \cup {p}
          /\ writes' = writes (+) SetToBag(
               {ProgWrite("pull",
                          IF vault[p] # Absent THEN "modify" ELSE "create",
                          p, remote[p])})
          /\ done' = NoDone
     ELSE /\ done' = Done("pull", p, p, Absent, "error", "none")
          /\ UNCHANGED <<suppressedPaths, writes>>
  /\ UNCHANGED <<vault, remote, fileCache, fileHashCache, echoed, guardFrame>>

\* onFileDeleted -> deleteLocal(p) up to its awaited vault.delete
DeleteLocalBegin(p) ==
  /\ connected
  /\ remote[p] = Absent
  /\ vault[p] # Absent
  /\ CanWrite
  /\ suppressedPaths' = suppressedPaths \cup {p}
  /\ writes' = writes (+) SetToBag(
       {ProgWrite("deleteLocal", "delete", p, Absent)})
  /\ done' = NoDone
  /\ UNCHANGED <<vault, remote, fileCache, fileHashCache, inflight, echoed,
                 guardFrame>>

\* The request the interceptor sends for the event of a vault call.
EventRequest(w) ==
  CASE w.call = "modify" ->
         Task("modify", WriteReq(w.path, w.content, getKnownHash(w.path)))
    [] w.call = "create" -> Task("create", CreateReq(w.path, w.content))
    [] w.call = "delete" -> Task("delete", DeleteReq(w.path))

\* The first lines of onModify / onCreate / onDelete for the event of a
\* programmatic write to p.
eventSkipped(p) ==
  ~registered \/ isSuppressed(p) \/ ~isAllowed(p)

\* The vault carries out (ok) or rejects a programmatic write. Carried out,
\* its modify / create / delete event reaches the interceptor's handler,
\* which returns at once when the path is suppressed and otherwise sends
\* the mutation to the server; echoed keeps the path of that request,
\* whose answer this specification does not follow.
VaultCall(w, ok) ==
  /\ BagIn(w, writes)
  /\ w.state = "begun"
  /\ ok => IF w.call = "create" THEN vault[w.path] = Absent
           ELSE vault[w.path] # Absent
  /\ writes' = (writes (-) SetToBag({w})) (+) SetToBag(
       {[w EXCEPT !.state = IF ok THEN "landed" ELSE "failed"]})
  /\ vault' = IF ok THEN [vault EXCEPT ![w.path] = w.content] ELSE vault
  /\ echoed' = IF ok /\ ~eventSkipped(w.path)
               THEN echoed \cup {EventRequest(w).request.path}
               ELSE echoed
  /\ done' = NoDone
  /\ UNCHANGED <<remote, fileCache, fileHashCache, suppressedPaths, inflight,
                 guardFrame>>

\* a finally that releases the path only after a successful write
releasedOnSuccessOnly(w) ==
  IF w.state = "landed" THEN suppressedPaths \ {w.path} ELSE suppressedPaths

\* finally { unsuppress(relPath) }
released(w) == suppressedPaths \ {w.path}

\* The awaited vault call returns to pullFile / deleteLocal: the finally
\* unsuppresses; after a write that was carried out the known state is
\* recorded (pullFile) or cleared (deleteLocal); a rejected one is caught
\* and logged by pullFile.
WriteReturns(w) ==
  /\ BagIn(w, writes)
  /\ w.state # "begun"
  /\ writes' = writes (-) SetToBag({w})
  /\ suppressedPaths' = released(w)
  /\ IF w.state = "landed"
     THEN IF w.caller = "pull"
          THEN /\ fileCache' = recordedContent(w.path, w.content)
               /\ fileHashCache' = recordedHash(w.path, hashContent(w.content))
          ELSE /\ fileCache' = clearedContent(w.path)
               /\ fileHashCache' = clearedHash(w.path)
     ELSE UNCHANGED <<fileCache, fileHashCache>>
  /\ done' = IF w.caller = "pull"
             THEN Done("pull", w.path, w.path, w.content,
                       IF w.state = "landed" THEN "ok" ELSE "write-error",
                       IF w.state = "landed" THEN "pulled" ELSE "none")
             ELSE NoDone
  /\ UNCHANGED <<vault, remote, inflight, echoed, guardFrame>>

InitGuard ==
  /\ vault \in Stores
  /\ remote \in Stores
  /\ build = "hash"
  /\ fileCache = CacheOf(vault)
  /\ fileHashCache = HashOf(vault)
  /\ suppressedPaths = {}
  /\ connected = TRUE
  /\ inflight = {}
  /\ done = NoDone
  /\ QueueIdle
  /\ FlushIdle
  /\ AuxIdle
  /\ pc = "ready"
  /\ registered = TRUE

NextGuard ==
  \/ \E p \in Paths : OnFileUpdated(p)
  \/ \E t \in inflight, ok \in BOOLEAN : PullAnswered(t, ok)
  \/ \E p \in Paths : DeleteLocalBegin(p)
  \/ \E w \in BagToSet(writes), ok \in BOOLEAN : VaultCall(w, ok)
  \/ \E w \in BagToSet(writes) : WriteReturns(w)

SpecGuard == InitGuard /\ [][NextGuard]_vars

-----------------------------------------------------------------------------
(* SpecSync: one SyncEngine.initialSync call taken request by request and  *)
(* file by file. build "hash" is the engine that always deletes and keeps  *)
(* hashes (suppressedPaths.ts 45-185); build "queue" is the engine with    *)
(* the local-missing strategies and the returned counts (part_009), called *)
(* with a skip set as the plugin's onConnect calls it. Nothing else writes *)
(* to either store while the call runs. The manifest lists the files of    *)
(* the remote store, which holds policy-allowed paths only.                *)

Strategies == {"delete", "quarantine", "keep"}

\* quarantineRoot: `.hive-quarantine/<new Date().toISOString()>`
Roots == {"t1", "t2"}

NoRoot == "null"
NoSummary == [updated |-> 0, created |-> 0, deleted |-> 0, quarantined |-> 0]

\* this.vault.getFiles().filter((f) => isAllowed(f.path))
localFiles(v) == {p \in SyncPaths : v[p] # Absent /\ isAllowed(p)}

\* the paths of res.manifest, and the hash each entry carries
manifestPaths(r) == {p \in SyncPaths : r[p] # Absent}
manifestHash(r, p) == hashContent(r[p])

\* a skip set that is ignored
skipFilterNone(S, skip) == S

\* the skip set excludes its paths from the comparison and from the lists
skipFilter(S, skip) == S \ skip

\* a comparison that pulls every entry as new
toCreateOfEvery(v, r) == manifestPaths(r)

\* a comparison that takes every local file as up to date
toUpdateOfNever(v, r) == {}

\* entries with no local file, entries whose local hash differs or equals,
\* and local files the manifest does not list
toCreateOf(v, r) == {p \in manifestPaths(r) : p \notin localFiles(v)}
toUpdateOf(v, r) ==
  {p \in manifestPaths(r) \cap localFiles(v) :
     hashContent(v[p]) # manifestHash(r, p)}
sameOf(v, r) ==
  {p \in manifestPaths(r) \cap localFiles(v) :
     hashContent(v[p]) = manifestHash(r, p)}
localOnlyOf(v, r) == {p \in localFiles(v) : p \notin manifestPaths(r)}

syncFrame == <<connected, inflight, done, queueVars, pc, flushIdx, flushOps,
               affectedPaths, skipPaths, sent, failed, shadow, stale, build,
               collabPaths, writes, echoed, reqs, canvas, follow>>

\* initialSync() up to its vault-sync-request
SyncBegin ==
  /\ sync.pc = "idle"
  /\ connected
  /\ sync' = [sync EXCEPT !.pc = "manifest"]
  /\ UNCHANGED <<vault, remote, fileCache, fileHashCache, suppressedPaths,
                 registered, syncFrame>>

\* a comparison that queues local-only files for deletion whatever the
\* strategy
toDeleteAlways(strategy, localOnly) == localOnly

\* if (this.localMissingStrategy === 'delete') toDelete.push(file)
toDeleteOf(strategy, localOnly) ==
  IF strategy = "delete" THEN localOnly ELSE {}

\* else if (this.localMissingStrategy === 'quarantine') toQuarantine.push(file)
toQuarantineOf(strategy, localOnly) ==
  IF strategy = "quarantine" THEN localOnly ELSE {}

\* The manifest arrives (or the request fails and initialSync rejects): the
\* two loops that compare it with the local files, caching what is equal.
ManifestAnswered(ok) ==
  /\ sync.pc = "manifest"
  /\ IF ~ok
     THEN /\ sync' = [sync EXCEPT !.pc = "failed"]
          /\ registered' = TRUE
          /\ UNCHANGED <<fileCache, fileHashCache>>
     ELSE LET create == skipFilter(toCreateOf(vault, remote), sync.skip)
              update == skipFilter(toUpdateOf(vault, remote), sync.skip)
              same == skipFilter(sameOf(vault, remote), sync.skip)
              localOnly == skipFilter(localOnlyOf(vault, remote), sync.skip)
              delete == toDeleteOf(sync.strategy, localOnly)
              quarantine == toQuarantineOf(sync.strategy, localOnly)
          IN /\ fileCache' = [p \in DOMAIN fileCache |->
                                IF p \in same THEN vault[p] ELSE fileCache[p]]
             /\ fileHashCache' =
                  [p \in DOMAIN fileHashCache |->
                     IF p \in same /\ build = "hash"
                     THEN manifestHash(remote, p) ELSE fileHashCache[p]]
             /\ sync' = [sync EXCEPT
                  !.pc = "running",
                  !.toCreate = create, !.toUpdate = update,
                  !.toDelete = delete, !.toQuarantine = quarantine,
                  !.acted = same,
                  !.summary = [updated |-> Cardinality(update),
                               created |-> Cardinality(create),
                               deleted |-> Cardinality(delete),
                               quarantined |-> Cardinality(quarantine)]]
             /\ UNCHANGED registered
  /\ UNCHANGED <<vault, remote, suppressedPaths, syncFrame>>

\* for (const file of toDelete) await this.deleteLocal(file.path); a
\* rejected vault.delete rejects initialSync.
SyncDelete(p, ok) ==
  /\ sync.pc = "running"
  /\ p \in sync.toDelete
  /\ IF ok
     THEN /\ vault' = [vault EXCEPT ![p] = Absent]
          /\ fileCache' = clearedContent(p)
          /\ fileHashCache' = clearedHash(p)
          /\ sync' = [sync EXCEPT !.toDelete = @ \ {p},
                                  !.acted = @ \cup {p}]
          /\ UNCHANGED registered
     ELSE /\ sync' = [sync EXCEPT !.pc = "failed"]
          /\ registered' = TRUE
          /\ UNCHANGED <<vault, fileCache, fileHashCache>>
  /\ suppressedPaths' = afterSuppressedWrite({p})
  /\ UNCHANGED <<remote, syncFrame>>

\* vault.rename(file, `${rootPath}/${file.path}`): the quarantine folder
\* with the file added
quarantined(q, root, p, c) ==
  q \cup {[root |-> root, path |-> p, content |-> c]}

\* quarantineLocal for the next file to quarantine, under the root made up
\* when the first one is moved. vault.rename rejects when the target exists
\* (or for another reason), and initialSync rejects with it.
SyncQuarantine(p, root, ok) ==
  /\ sync.pc = "running"
  /\ sync.toDelete = {}
  /\ p \in sync.toQuarantine
  /\ root = IF sync.root = NoRoot THEN root ELSE sync.root
  /\ ok => ~(\E e \in sync.qstore : e.root = root /\ e.path = p)
  /\ IF ok
     THEN /\ vault' = [vault EXCEPT ![p] = Absent]
          /\ fileCache' = clearedContent(p)
          /\ sync' = [sync EXCEPT
               !.toQuarantine = @ \ {p},
               !.root = root,
               !.qstore = quarantined(@, root, p, vault[p]),
               !.acted = @ \cup {p}]
          /\ UNCHANGED registered
     ELSE /\ sync' = [sync EXCEPT !.pc = "failed", !.root = root]
          /\ registered' = TRUE
          /\ UNCHANGED <<vault, fileCache>>
  /\ suppressedPaths' = afterSuppressedWrite({p})
  /\ UNCHANGED <<remote, fileHashCache, syncFrame>>

\* pull loops that do not wait for the loops before them
pullsMayStartAtOnce == TRUE

\* The pull loops come after the deletion loop and the quarantine loop,
\* each of which awaits every one of its calls.
pullsMayStart == sync.toDelete = {} /\ sync.toQuarantine = {}

\* await this.pullFile(relPath) for the next entry of toCreate, and of
\* toUpdate once toCreate is done; a failed pull is logged and the loop
\* goes on.
SyncPull(p, ok) ==
  /\ sync.pc = "running"
  /\ pullsMayStart
  /\ IF sync.toCreate # {} THEN p \in sync.toCreate ELSE p \in sync.toUpdate
  /\ ok => ServerAccepts(remote, ReadReq(p))
  /\ IF ok
     THEN /\ pulled(p)
          /\ sync' = [sync EXCEPT !.toCreate = @ \ {p}, !.toUpdate = @ \ {p},
                                  !.acted = @ \cup {p}]
     ELSE /\ sync' = [sync EXCEPT !.toCreate = @ \ {p}, !.toUpdate = @ \ {p},
                                  !.pullFailed = @ \cup {p}]
          /\ UNCHANGED <<vault, fileCache, fileHashCache, suppressedPaths>>
  /\ UNCHANGED <<remote, registered, syncFrame>>

\* return { updated, created, deleted, quarantined, quarantinePath }, and
\* the caller's this.writeInterceptor.register(), which also follows the
\* catch of a rejected initialSync
SyncReturn ==
  /\ sync.pc = "running"
  /\ sync.toDelete = {} /\ sync.toQuarantine = {}
  /\ sync.toCreate = {} /\ sync.toUpdate = {}
  /\ sync' = [sync EXCEPT !.pc = "returned"]
  /\ registered' = TRUE
  /\ UNCHANGED <<vault, remote, fileCache, fileHashCache, suppressedPaths,
                 syncFrame>>

SyncStores == [SyncPaths -> Contents \cup {Absent}]

InitSync ==
  /\ vault \in SyncStores
  /\ remote \in {r \in SyncStores : r[Denied] = Absent}
  /\ fileCache = [p \in SyncPaths |-> None]
  /\ fileHashCache = [p \in SyncPaths |-> None]
  /\ suppressedPaths = {}
  /\ connected = TRUE
  /\ inflight = {}
  /\ done = NoDone
  /\ QueueIdle
  /\ FlushIdle
  /\ collabPaths = {} /\ writes = EmptyBag /\ echoed = {}
  /\ reqs = <<>> /\ canvas = NoCanvas /\ follow = initialFollowState
  /\ pc = "connected"
  /\ registered = FALSE
  /\ build \in {"hash", "queue"}
  /\ \E strategy \in Strategies, skip \in SUBSET Paths,
        q \in {{}, {[root |-> "t1", path |-> "a.md", content |-> "u"]}} :
       /\ build = "hash" => (strategy = "delete" /\ skip = {} /\ q = {})
       /\ sync = [pc |-> "idle", strategy |-> strategy, skip |-> skip,
                  before |-> vault, qbefore |-> q, qstore |-> q,
                  toCreate |-> {}, toUpdate |-> {}, toDelete |-> {},
                  toQuarantine |-> {}, root |-> NoRoot,
                  summary |-> NoSummary, pullFailed |-> {}, acted |-> {}]

NextSync ==
  \/ SyncBegin
  \/ \E ok \in BOOLEAN : ManifestAnswered(ok)
  \/ \E p \in Paths, ok \in BOOLEAN : SyncDelete(p, ok)
  \/ \E p \in Paths, root \in Roots, ok \in BOOLEAN : SyncQuarantine(p, root, ok)
  \/ \E p \in Paths, ok \in BOOLEAN : SyncPull(p, ok)
  \/ SyncReturn

SpecSync == InitSync /\ [][NextSync]_vars

-----------------------------------------------------------------------------
(* SpecPolicy: the hash-aware build from initialSync on: the engine        *)
(* reconciles, onConnect registers the interceptor, and the user then      *)
(* edits, creates, deletes and renames files anywhere in the vault, also   *)
(* under the denied prefix. What the user writes is always the same        *)
(* content: the policy does not look at it.                                *)

InitPolicy ==
  /\ InitSync
  /\ build = "hash"
  /\ vault["b.md"] # "v" /\ vault[Denied] # "v"
  /\ \A p \in SyncPaths : remote[p] # "v"

NextPolicy ==
  \/ SyncBegin
  \/ \E ok \in BOOLEAN : ManifestAnswered(ok)
  \/ \E p \in Paths, ok \in BOOLEAN : SyncDelete(p, ok)
  \/ \E p \in Paths, ok \in BOOLEAN : SyncPull(p, ok)
  \/ SyncReturn
  \/ \E p \in SyncPaths : registered /\ LocalModifyA(p, "u")
  \/ \E p \in SyncPaths : registered /\ LocalCreateA(p, "u")
  \/ \E p \in SyncPaths : registered /\ LocalDeleteA(p)
  \/ \E o \in SyncPaths, n \in SyncPaths : registered /\ LocalRenameA(o, n)
  \/ \E t \in inflight, res \in {"ok", "conflict", "error"} :
       \E wrote \in WriteOutcomes(t, res = "error") : RespondA(t, res, wrote)

SpecPolicy == InitPolicy /\ [][NextPolicy]_vars

-----------------------------------------------------------------------------
(* SpecCollab: the subscribed hash-aware interceptor while the live-editing *)
(* session owns some paths (getCollabPaths() is not empty), with the socket *)
(* up or down                                                               *)

InitCollab ==
  /\ vault \in Stores
  /\ remote = vault
  /\ build = "hash"
  /\ fileCache = CacheOf(vault)
  /\ fileHashCache = HashOf(vault)
  /\ suppressedPaths = {}
  /\ connected \in BOOLEAN
  /\ inflight = {}
  /\ done = NoDone
  /\ QueueIdle
  /\ FlushIdle
  /\ collabPaths \in SUBSET Paths \ {{}}
  /\ writes = EmptyBag /\ echoed = {} /\ sync = NoSync
  /\ reqs = <<>> /\ canvas = NoCanvas /\ follow = initialFollowState
  /\ pc = IF connected THEN "ready" ELSE "down"
  /\ registered = TRUE

NextCollab ==
  \/ \E p \in Paths, c \in Contents : LocalModifyA(p, c)
  \/ \E p \in Paths, c \in Contents : LocalCreateA(p, c)
  \/ \E p \in Paths : LocalDeleteA(p)
  \/ \E o \in Paths, n \in Paths : LocalRenameA(o, n)
  \/ \E t \in inflight, res \in {"ok", "conflict", "error"} :
       \E wrote \in WriteOutcomes(t, res = "error") : RespondA(t, res, wrote)

SpecCollab == InitCollab /\ [][NextCollab]_vars

-----------------------------------------------------------------------------
(* SocketClient.request: one promise per call, settled by the              *)
(* acknowledgement callback or by the timer.  socket.io calls an           *)
(* acknowledgement callback at most once and may never call it (the        *)
(* response is lost with the connection); a timer that is armed and not    *)
(* cleared fires.  resolve and reject of a settled promise do nothing.     *)

MaxRequests == 3
RequestEvents == {"file-write", "file-delete"}
Responses == {"ok", "error"}

reqFrame == <<storeVars, queueVars, lifeVars, collabPaths, writes, echoed,
              sync, canvas, follow>>

\* new Promise(...) with no timer: the request waits for the callback alone
newRequestNoTimer(event) ==
  [event |-> event, timer |-> "none", state |-> "pending", value |-> "none",
   acked |-> "none", calls |-> 0]

\* new Promise(...): setTimeout arms the timer, emit hands over the callback
newRequest(event) ==
  [event |-> event, timer |-> "armed", state |-> "pending", value |-> "none",
   acked |-> "none", calls |-> 0]

\* resolve(v) / reject(v) of the promise: only the first call settles it
settle(r, state, value) ==
  IF r.state = "pending"
  THEN [r EXCEPT !.state = state, !.value = value, !.calls = @ + 1]
  ELSE [r EXCEPT !.calls = @ + 1]

\* request(event, data, timeoutMs = 8000)
Request(event) ==
  /\ Len(reqs) < MaxRequests
  /\ reqs' = Append(reqs, newRequest(event))
  /\ UNCHANGED reqFrame

\* the setTimeout callback: reject(new Error('Socket request timed out'))
TimerFires(i) ==
  /\ i \in 1..Len(reqs)
  /\ reqs[i].timer = "armed"
  /\ reqs' = [reqs EXCEPT
       ![i] = settle([reqs[i] EXCEPT !.timer = "fired"], "rejected", "timed-out")]
  /\ UNCHANGED reqFrame

\* callback(res): clearTimeout(timer), then reject on res.ok === false and
\* resolve(res) otherwise; the response may come after the timer has fired
Acknowledge(i, res) ==
  /\ i \in 1..Len(reqs)
  /\ reqs[i].acked = "none"
  /\ LET cleared == [reqs[i] EXCEPT
                       !.acked = res,
                       !.timer = IF @ = "armed" THEN "cleared" ELSE @]
     IN  reqs' = [reqs EXCEPT
           ![i] = IF res = "error"
                  THEN settle(cleared, "rejected", "server-error")
                  ELSE settle(cleared, "resolved", "response")]
  /\ UNCHANGED reqFrame

InitReq ==
  /\ vault = EmptyStore
  /\ remote = EmptyStore
  /\ build = "hash"
  /\ fileCache = CacheOf(vault)
  /\ fileHashCache = HashOf(vault)
  /\ suppressedPaths = {}
  /\ connected = TRUE
  /\ inflight = {}
  /\ done = NoDone
  /\ QueueIdle
  /\ FlushIdle
  /\ AuxIdle
  /\ pc = "ready"
  /\ registered = TRUE

NextReq ==
  \/ \E event \in RequestEvents : Request(event)
  \/ \E i \in 1..MaxRequests : TimerFires(i)
  \/ \E i \in 1..MaxRequests, res \in Responses : Acknowledge(i, res)

\* the event loop runs the callback of every timer that is armed
SpecReq ==
  /\ InitReq
  /\ [][NextReq]_vars
  /\ \A i \in 1..MaxRequests : WF_vars(TimerFires(i))

-----------------------------------------------------------------------------
(* Canvas merge (resolveEntity / mergeEntities / mergeCanvasModels).       *)
(* The two models handed to mergeCanvasModels are built one entity (or one *)
(* other top-level key) at a time, in any order; an entity may lack its    *)
(* updatedAt and deleted keys or carry an empty id.  Ids are unique within *)
(* a list.  Entities are records, so the key order of JSON.stringify is    *)
(* not modelled: two entities with equal fields serialise equally.         *)

MaxEntities == 2
MaxUpdatedAt == 1

EntityIds == {"e1", "n1", "n2"}

\* a.id.localeCompare(b.id)
idRank(id) == CASE id = "e1" -> 1 [] id = "n1" -> 2 [] id = "n2" -> 3 [] OTHER -> 0

RawEntities ==
  [id : EntityIds, updatedAt : 0..MaxUpdatedAt, deleted : BOOLEAN,
   label : {"x", "y"}]
    \cup [id : EntityIds, label : {"x"}]
    \cup [id : {""}, updatedAt : {0}, deleted : {FALSE}, label : {"x"}]

\* malformed values: a list item that is no object or has no string id, a
\* list value that is no array, an input that is no object
NonEntity == [label |-> "x"]
NotArray == <<[notArray |-> TRUE]>>
NotObject == [notObject |-> TRUE]

\* { ...entity } with updatedAt defaulted to 0 and deleted to false
normalizeEntity(e) ==
  [k \in DOMAIN e \cup {"updatedAt", "deleted"} |->
     CASE k = "updatedAt" -> IF k \in DOMAIN e THEN e.updatedAt ELSE 0
       [] k = "deleted" -> IF k \in DOMAIN e THEN e.deleted ELSE FALSE
       [] OTHER -> e[k]]

\* normalizeEntities that keeps every item of the list
normalizeEntitiesKeepAll(input) ==
  IF input = NotArray THEN <<>>
  ELSE [i \in 1..Len(input) |-> normalizeEntity(input[i])]

normalizeEntities(input) ==
  IF input = NotArray THEN <<>>
  ELSE LET valid == SelectSeq(input, LAMBDA e : "id" \in DOMAIN e /\ e.id # "")
       IN  [i \in 1..Len(valid) |-> normalizeEntity(valid[i])]

\* a sort that puts an entity behind the later entities of the same id
RECURSIVE sortByIdUnstable(_)
sortByIdUnstable(list) ==
  IF list = <<>> THEN <<>>
  ELSE LET rest == sortByIdUnstable(Tail(list))
           e == Head(list)
           before == SelectSeq(rest, LAMBDA o : idRank(o.id) <= idRank(e.id))
           after == SelectSeq(rest, LAMBDA o : idRank(o.id) > idRank(e.id))
       IN  before \o <<e>> \o after

\* Array.prototype.sort(stableEntitySort): a stable insertion by id
RECURSIVE sortById(_)
sortById(list) ==
  IF list = <<>> THEN <<>>
  ELSE LET rest == sortById(Tail(list))
           e == Head(list)
           before == SelectSeq(rest, LAMBDA o : idRank(o.id) < idRank(e.id))
           after == SelectSeq(rest, LAMBDA o : idRank(o.id) >= idRank(e.id))
       IN  before \o <<e>> \o after

EmptyCanvas == [nodes |-> <<>>, edges |-> <<>>]

\* { ...input } with nodes and edges replaced; a missing list is undefined
canonicalizeCanvasModel(input) ==
  LET model == IF input = NotObject THEN EmptyCanvas ELSE input
      list(k) == IF k \in DOMAIN model THEN model[k] ELSE NotArray
  IN  [k \in DOMAIN model \cup {"nodes", "edges"} |->
         IF k \in {"nodes", "edges"} THEN sortById(normalizeEntities(list(k)))
         ELSE model[k]]

NoEntity == [id |-> "null"]

\* JSON.stringify of a normalised entity
encodeEntity(e) ==
  <<"{", "id", e.id>>
    \o (IF "label" \in DOMAIN e THEN <<"label", e.label>> ELSE <<>>)
    \o <<"updatedAt", ToString(e.updatedAt),
         "deleted", IF e.deleted THEN "true" ELSE "false", "}">>

\* order of the tokens two serialised entities can differ in at one place
tokenRank(t) ==
  IF \E n \in 0..(MaxUpdatedAt + 1) : ToString(n) = t
  THEN 1 + CHOOSE n \in 0..(MaxUpdatedAt + 1) : ToString(n) = t
  ELSE IF t \in {"y", "true", "updatedAt", "n2"} THEN 2 ELSE 1

\* s.localeCompare(t) >= 0 for two serialised entities
RECURSIVE textGE(_, _)
textGE(s, t) ==
  IF s = <<>> THEN t = <<>>
  ELSE IF t = <<>> THEN TRUE
  ELSE IF Head(s) = Head(t) THEN textGE(Tail(s), Tail(t))
  ELSE tokenRank(Head(s)) > tokenRank(Head(t))

\* resolveEntity that lets the incoming entity win every exact tie
resolveEntityIncomingOnTie(base, incoming) ==
  IF base = NoEntity THEN incoming
  ELSE IF incoming.deleted /\ ~base.deleted THEN incoming
  ELSE IF base.deleted /\ ~incoming.deleted
       THEN IF incoming.updatedAt > base.updatedAt THEN incoming ELSE base
  ELSE IF incoming.updatedAt >= base.updatedAt THEN incoming ELSE base

\* resolveEntity deciding by timestamp and serialised form alone
resolveEntityByTimestamp(base, incoming) ==
  IF base = NoEntity THEN incoming
  ELSE IF incoming.updatedAt > base.updatedAt THEN incoming
  ELSE IF incoming.updatedAt < base.updatedAt THEN base
  ELSE IF textGE(encodeEntity(incoming), encodeEntity(base)) THEN incoming
  ELSE base

\* a live incoming entity as old as the base tombstone resurrects the id
resolveEntityUndeleteOnTie(base, incoming) ==
  IF base = NoEntity THEN incoming
  ELSE IF incoming.deleted /\ ~base.deleted THEN incoming
  ELSE IF base.deleted /\ ~incoming.deleted
       THEN IF incoming.updatedAt >= base.updatedAt THEN incoming ELSE base
  ELSE IF incoming.updatedAt > base.updatedAt THEN incoming
  ELSE IF incoming.updatedAt < base.updatedAt THEN base
  ELSE IF textGE(encodeEntity(incoming), encodeEntity(base)) THEN incoming
  ELSE base

\* incoming tombstones win over live bases whatever the timestamps say
resolveEntity(base, incoming) ==
  IF base = NoEntity THEN incoming
  ELSE IF incoming.deleted /\ ~base.deleted THEN incoming
  ELSE IF base.deleted /\ ~incoming.deleted
       THEN IF incoming.updatedAt > base.updatedAt THEN incoming ELSE base
  ELSE IF incoming.updatedAt > base.updatedAt THEN incoming
  ELSE IF incoming.updatedAt < base.updatedAt THEN base
  ELSE IF textGE(encodeEntity(incoming), encodeEntity(base)) THEN incoming
  ELSE base

\* a merge in which the incoming entity always replaces the base entity
mergeEntitiesOverwrite(base, incoming) ==
  LET inIds == {incoming[i].id : i \in 1..Len(incoming)}
  IN  sortById(SelectSeq(base, LAMBDA e : e.id \notin inIds) \o incoming)

\* byId.set for every base entity, resolveEntity for every incoming one,
\* then the values in ascending id order
mergeEntities(base, incoming) ==
  LET RECURSIVE setAll(_, _)
      setAll(byId, list) ==
        IF list = <<>> THEN byId
        ELSE setAll([byId EXCEPT ![Head(list).id] = Head(list)], Tail(list))
      RECURSIVE resolveAll(_, _)
      resolveAll(byId, list) ==
        IF list = <<>> THEN byId
        ELSE resolveAll([byId EXCEPT ![Head(list).id] =
                           resolveEntity(@, Head(list))], Tail(list))
      byId == resolveAll(setAll([id \in EntityIds |-> NoEntity], base), incoming)
      \* Map keeps insertion order and holds every id once
      ids(list) == [i \in 1..Len(list) |-> list[i].id]
      all == ids(base) \o ids(incoming)
      order == SelectSeq([i \in 1..Len(all) |->
                            IF \E j \in 1..(i - 1) : all[j] = all[i]
                            THEN "" ELSE all[i]],
                         LAMBDA id : id # "")
  IN  sortById([i \in 1..Len(order) |-> byId[order[i]]])

mergeCanvasModels(baseInput, incomingInput) ==
  LET base == canonicalizeCanvasModel(baseInput)
      incoming == canonicalizeCanvasModel(incomingInput)
      spread == [k \in DOMAIN base \cup DOMAIN incoming |->
                   IF k \in DOMAIN incoming THEN incoming[k] ELSE base[k]]
  IN  [spread EXCEPT !.nodes = mergeEntities(base.nodes, incoming.nodes),
                     !.edges = mergeEntities(base.edges, incoming.edges)]

canvasSize(m) ==
  Len(m.nodes) + Len(m.edges) + IF "viewport" \in DOMAIN m THEN 1 ELSE 0

canvasFrame == <<storeVars, queueVars, lifeVars, collabPaths, writes, echoed,
                 sync, reqs, follow>>

\* the caller puts one more entity into one list of one of the two models
AddEntity(side, kind, e) ==
  /\ canvas.pc = "building"
  /\ canvasSize(canvas.base) + canvasSize(canvas.incoming) < MaxEntities
  /\ (kind = "edges") = (e.id = "e1")
  /\ \A i \in 1..Len(canvas[side][kind]) :
       canvas[side][kind][i].id # e.id \/ e.id = ""
  /\ canvas' = [canvas EXCEPT ![side][kind] = Append(@, e)]
  /\ UNCHANGED canvasFrame

\* the caller's model carries another top-level key
AddKey(side, v) ==
  /\ canvas.pc = "building"
  /\ canvasSize(canvas.base) + canvasSize(canvas.incoming) < MaxEntities
  /\ "viewport" \notin DOMAIN canvas[side]
  /\ canvas' = [canvas EXCEPT ![side] = [viewport |-> v] @@ @]
  /\ UNCHANGED canvasFrame

\* CanvasAdapter.merge(base, incoming)
MergeCanvas ==
  /\ canvas.pc = "building"
  /\ canvas' = [canvas EXCEPT
       !.pc = "merged",
       !.result = mergeCanvasModels(canvas.base, canvas.incoming)]
  /\ UNCHANGED canvasFrame

InitMerge ==
  /\ vault = EmptyStore
  /\ remote = EmptyStore
  /\ build = "hash"
  /\ fileCache = CacheOf(vault)
  /\ fileHashCache = HashOf(vault)
  /\ suppressedPaths = {}
  /\ connected = TRUE
  /\ inflight = {}
  /\ done = NoDone
  /\ QueueIdle
  /\ FlushIdle
  /\ collabPaths = {} /\ writes = EmptyBag /\ echoed = {}
  /\ sync = NoSync /\ reqs = <<>> /\ follow = initialFollowState
  /\ canvas = [pc |-> "building", base |-> EmptyCanvas,
               incoming |-> EmptyCanvas, result |-> EmptyCanvas]
  /\ pc = "ready"
  /\ registered = TRUE

NextMerge ==
  \/ \E side \in {"base", "incoming"}, kind \in {"nodes", "edges"},
        e \in RawEntities : AddEntity(side, kind, e)
  \/ \E side \in {"base", "incoming"}, v \in {"v1", "v2"} : AddKey(side, v)
  \/ MergeCanvas

SpecMerge == InitMerge /\ [][NextMerge]_vars

-----------------------------------------------------------------------------
(* One canvas document through canonicalizeCanvasModel, mergeCanvasModels  *)
(* with itself, and serializeCanvasModel / parseCanvasModel.  The document *)
(* starts in one of a few shapes (no object, a list missing or no array)   *)
(* and receives entities one at a time, repeated ids and items without an  *)
(* id included.  JSON text is a sequence of tokens: numbers and booleans   *)
(* are written as numerals and true / false and read back from them.       *)

CanvasShapes ==
  {NotObject, EmptyCanvas, [edges |-> <<>>],
   [nodes |-> NotArray, edges |-> <<>>],
   [nodes |-> <<>>, edges |-> <<>>, viewport |-> "v1"]}

RECURSIVE encodeList(_)
encodeList(list) ==
  IF list = <<>> THEN <<>> ELSE encodeEntity(Head(list)) \o encodeList(Tail(list))

\* JSON.stringify(canonicalizeCanvasModel(input), null, 2)
serializeCanvasModel(input) ==
  LET canonical == canonicalizeCanvasModel(input)
  IN  <<"{", "nodes", "[">> \o encodeList(canonical.nodes)
        \o <<"]", "edges", "[">> \o encodeList(canonical.edges) \o <<"]">>
        \o (IF "viewport" \in DOMAIN canonical
            THEN <<"viewport", canonical.viewport>> ELSE <<>>)
        \o <<"}">>

\* JSON.parse: the value read, or a SyntaxError
SyntaxError == [ok |-> FALSE]

\* a reader that takes every deleted flag as false
decodeValueNoTombstone(k, v) ==
  CASE k = "updatedAt" -> CHOOSE n \in 0..(MaxUpdatedAt + 1) : ToString(n) = v
    [] k = "deleted" -> FALSE
    [] OTHER -> v

decodeValue(k, v) ==
  CASE k = "updatedAt" -> CHOOSE n \in 0..(MaxUpdatedAt + 1) : ToString(n) = v
    [] k = "deleted" -> v = "true"
    [] OTHER -> v

RECURSIVE decodeFields(_, _)
decodeFields(toks, acc) ==
  IF toks = <<>> THEN SyntaxError
  ELSE IF Head(toks) = "}"
       THEN [ok |-> TRUE, value |-> acc, rest |-> Tail(toks)]
  ELSE IF Len(toks) < 2 \/ toks[1] \notin {"id", "label", "updatedAt", "deleted"}
       THEN SyntaxError
  ELSE decodeFields(SubSeq(toks, 3, Len(toks)),
                    (toks[1] :> decodeValue(toks[1], toks[2])) @@ acc)

RECURSIVE decodeList(_, _)
decodeList(toks, acc) ==
  IF toks = <<>> THEN SyntaxError
  ELSE IF Head(toks) = "]"
       THEN [ok |-> TRUE, value |-> acc, rest |-> Tail(toks)]
  ELSE IF Head(toks) # "{" THEN SyntaxError
  ELSE LET e == decodeFields(Tail(toks), [k \in {} |-> ""])
       IN  IF ~e.ok THEN SyntaxError
           ELSE decodeList(e.rest, Append(acc, e.value))

RECURSIVE decodeKeys(_, _)
decodeKeys(toks, acc) ==
  IF toks = <<>> THEN SyntaxError
  ELSE IF Head(toks) = "}"
       THEN IF Len(toks) = 1 THEN [ok |-> TRUE, value |-> acc] ELSE SyntaxError
  ELSE IF Len(toks) < 2 THEN SyntaxError
  ELSE IF toks[1] \in {"nodes", "edges"}
       THEN IF toks[2] # "[" THEN SyntaxError
            ELSE LET l == decodeList(SubSeq(toks, 3, Len(toks)), <<>>)
                 IN  IF ~l.ok THEN SyntaxError
                     ELSE decodeKeys(l.rest, (toks[1] :> l.value) @@ acc)
  ELSE IF toks[1] = "viewport"
       THEN decodeKeys(SubSeq(toks, 3, Len(toks)), (toks[1] :> toks[2]) @@ acc)
  ELSE SyntaxError

JSONparse(raw) ==
  IF Head(raw) = "{" THEN decodeKeys(Tail(raw), [k \in {} |-> ""])
  ELSE IF Len(raw) = 1 /\ Head(raw) \notin {"[", "]", "}"}
       THEN [ok |-> TRUE, value |-> NotObject]
  ELSE SyntaxError

\* blank text and text JSON.parse rejects give the empty canonical model
parseCanvasModel(raw) ==
  IF raw = <<>> THEN canonicalizeCanvasModel(EmptyCanvas)
  ELSE LET parsed == JSONparse(raw)
       IN  IF parsed.ok THEN canonicalizeCanvasModel(parsed.value)
           ELSE canonicalizeCanvasModel(EmptyCanvas)

\* text that did not come from serializeCanvasModel: blank, cut short, a
\* number, an object without edges whose one node has an id only
ForeignTexts ==
  {<<>>, <<"{", "nodes", "[", "{", "id", "n1">>, <<"7">>,
   <<"{", "nodes", "[", "{", "id", "n1", "}", "]", "}">>}

\* the caller puts one more item into one list of the document
PutEntity(kind, e) ==
  /\ canvas.pc = "building"
  /\ canvas.input # NotObject
  /\ kind \in DOMAIN canvas.input
  /\ canvas.input[kind] # NotArray
  /\ Len(canvas.input[kind]) < MaxEntities
  /\ \A k \in DOMAIN canvas.input \cap {"nodes", "edges"} :
       k # kind /\ canvas.input[k] # NotArray
         => Len(canvas.input[k]) + Len(canvas.input[kind]) < MaxEntities
  /\ "id" \in DOMAIN e /\ e.id # "" => (kind = "edges") = (e.id = "e1")
  /\ canvas' = [canvas EXCEPT !.input[kind] = Append(@, e)]
  /\ UNCHANGED canvasFrame

Canonicalize ==
  /\ canvas.pc = "building"
  /\ canvas' = [canvas EXCEPT !.pc = "canonical",
                              !.result = canonicalizeCanvasModel(canvas.input)]
  /\ UNCHANGED canvasFrame

\* CanvasAdapter.merge(model, model)
MergeSelf ==
  /\ canvas.pc = "building"
  /\ canvas' = [canvas EXCEPT
       !.pc = "merged",
       !.result = mergeCanvasModels(canvas.input, canvas.input)]
  /\ UNCHANGED canvasFrame

Serialize ==
  /\ canvas.pc = "building"
  /\ canvas' = [canvas EXCEPT !.pc = "serialized",
                              !.text = serializeCanvasModel(canvas.input)]
  /\ UNCHANGED canvasFrame

\* text from elsewhere (a file on disk, a remote payload) is handed to parse
ForeignText(raw) ==
  /\ canvas.pc = "building"
  /\ canvas.input = EmptyCanvas
  /\ canvas' = [canvas EXCEPT !.pc = "foreign", !.text = raw]
  /\ UNCHANGED canvasFrame

Parse ==
  /\ canvas.pc \in {"serialized", "foreign"}
  /\ canvas' = [canvas EXCEPT
       !.pc = IF canvas.pc = "serialized" THEN "reparsed" ELSE "parsed",
       !.result = parseCanvasModel(canvas.text)]
  /\ UNCHANGED canvasFrame

InitCanon ==
  /\ vault = EmptyStore
  /\ remote = EmptyStore
  /\ build = "hash"
  /\ fileCache = CacheOf(vault)
  /\ fileHashCache = HashOf(vault)
  /\ suppressedPaths = {}
  /\ connected = TRUE
  /\ inflight = {}
  /\ done = NoDone
  /\ QueueIdle
  /\ FlushIdle
  /\ collabPaths = {} /\ writes = EmptyBag /\ echoed = {}
  /\ sync = NoSync /\ reqs = <<>> /\ follow = initialFollowState
  /\ \E shape \in CanvasShapes :
       canvas = [pc |-> "building", input |-> shape, text |-> <<>>,
                 result |-> EmptyCanvas]
  /\ pc = "ready"
  /\ registered = TRUE

NextCanon ==
  \/ \E kind \in {"nodes", "edges"}, e \in RawEntities \cup {NonEntity} :
       PutEntity(kind, e)
  \/ Canonicalize
  \/ MergeSelf
  \/ Serialize
  \/ \E raw \in ForeignTexts : ForeignText(raw)
  \/ Parse

SpecCanon == InitCanon /\ [][NextCanon]_vars

-----------------------------------------------------------------------------
(* Follow mode: transitionFollowState applied to the held FollowState, one *)
(* action at a time.  null is written "null" and an omitted reason         *)
(* "undefined"; the empty string is a possible user id.                    *)

UserIds == {"u1", "u2", ""}
FollowKinds == {"cursor", "viewport"}
Locations == {"Notes/a.md", "Notes/b.md"}
Reasons == {"undefined", "left"}

\* stateForMode that knows the cursor mode only
stateForModeCursorOnly(mode) == "following_cursor"

stateForMode(mode) ==
  IF mode = "cursor" THEN "following_cursor" ELSE "following_viewport"

\* a test that takes every state to have a target
hasTargetAlways(prev) == TRUE

\* !prev.targetUserId is false: neither null nor the empty string
hasTarget(prev) == prev.targetUserId \notin {"null", ""}

\* transitionFollowState that suspends whether or not a target is set
transitionFollowStateUnguarded(prev, action) ==
  IF action.type \in {"STOP_FOLLOW", "DISCONNECT"}
  THEN [initialFollowState EXCEPT
          !.reason = IF action.type = "DISCONNECT" THEN "disconnected"
                     ELSE IF action.reason = "undefined" THEN "null"
                     ELSE action.reason]
  ELSE IF action.type = "START_FOLLOW"
  THEN [state |-> "pending_target", targetUserId |-> action.userId,
        mode |-> action.mode, location |-> "null", reason |-> "null"]
  ELSE IF action.type = "RECONNECT"
  THEN IF ~hasTarget(prev) THEN initialFollowState
       ELSE [prev EXCEPT !.state = "pending_target", !.reason = "null"]
  ELSE IF action.type = "TARGET_LOCATION"
  THEN IF ~hasTarget(prev) THEN prev
       ELSE [prev EXCEPT !.state = stateForMode(prev.mode),
                         !.location = action.location, !.reason = "null"]
  ELSE [prev EXCEPT
          !.state = "suspended_target_missing",
          !.reason = IF action.reason = "undefined" THEN "target missing"
                     ELSE action.reason]

transitionFollowState(prev, action) ==
  IF action.type \in {"STOP_FOLLOW", "DISCONNECT"}
  THEN [initialFollowState EXCEPT
          !.reason = IF action.type = "DISCONNECT" THEN "disconnected"
                     ELSE IF action.reason = "undefined" THEN "null"
                     ELSE action.reason]
  ELSE IF action.type = "START_FOLLOW"
  THEN [state |-> "pending_target", targetUserId |-> action.userId,
        mode |-> action.mode, location |-> "null", reason |-> "null"]
  ELSE IF action.type = "RECONNECT"
  THEN IF ~hasTarget(prev) THEN initialFollowState
       ELSE [prev EXCEPT !.state = "pending_target", !.reason = "null"]
  ELSE IF action.type = "TARGET_LOCATION"
  THEN IF ~hasTarget(prev) THEN prev
       ELSE [prev EXCEPT !.state = stateForMode(prev.mode),
                         !.location = action.location, !.reason = "null"]
  ELSE IF action.type = "TARGET_MISSING"
  THEN IF ~hasTarget(prev) THEN prev
       ELSE [prev EXCEPT
               !.state = "suspended_target_missing",
               !.reason = IF action.reason = "undefined" THEN "target missing"
                          ELSE action.reason]
  ELSE prev

followFrame == <<vault, remote, fileCache, fileHashCache, suppressedPaths,
                 connected, inflight, queueVars, lifeVars, collabPaths, writes,
                 echoed, sync, reqs, canvas>>

\* the caller replaces the held state by the reducer's result
Dispatch(action) ==
  /\ follow' = transitionFollowState(follow, action)
  /\ done' = [op |-> "follow", action |-> action, prev |-> follow]
  /\ UNCHANGED followFrame

StartFollow(userId, mode) ==
  Dispatch([type |-> "START_FOLLOW", userId |-> userId, mode |-> mode])

TargetLocation(location) ==
  Dispatch([type |-> "TARGET_LOCATION", location |-> location])

TargetMissing(reason) ==
  Dispatch([type |-> "TARGET_MISSING", reason |-> reason])

StopFollow(reason) ==
  Dispatch([type |-> "STOP_FOLLOW", reason |-> reason])

Disconnect == Dispatch([type |-> "DISCONNECT"])

Reconnect == Dispatch([type |-> "RECONNECT"])

\* FollowModeController.onTargetLocation(userId, location): a report about
\* a user who is not the held target returns the held state; else the
\* TARGET_LOCATION action is dispatched.
OnTargetLocation(userId, location) ==
  /\ follow' =
       IF follow.targetUserId # userId THEN follow
       ELSE transitionFollowState(
              follow, [type |-> "TARGET_LOCATION", location |-> location])
  /\ done' = [op |-> "onTargetLocation", userId |-> userId,
              location |-> location, prev |-> follow]
  /\ UNCHANGED followFrame

InitFollow ==
  /\ vault = EmptyStore
  /\ remote = EmptyStore
  /\ build = "hash"
  /\ fileCache = CacheOf(vault)
  /\ fileHashCache = HashOf(vault)
  /\ suppressedPaths = {}
  /\ connected = TRUE
  /\ inflight = {}
  /\ done = NoDone
  /\ QueueIdle
  /\ FlushIdle
  /\ AuxIdle
  /\ pc = "ready"
  /\ registered = TRUE

NextFollow ==
  \/ \E userId \in UserIds, mode \in FollowKinds : StartFollow(userId, mode)
  \/ \E location \in Locations : TargetLocation(location)
  \/ \E reason \in Reasons : TargetMissing(reason)
  \/ \E reason \in Reasons : StopFollow(reason)
  \/ Disconnect
  \/ Reconnect
  \/ \E userId \in UserIds, location \in Locations :
       OnTargetLocation(userId, location)

SpecFollow == InitFollow /\ [][NextFollow]_vars

-----------------------------------------------------------------------------
(* Overlapping modify handlers (writeInterceptor.ts 42-74): every 'modify' *)
(* event starts its own onModify, and nothing orders or cancels the        *)
(* requests of two handlers for one path                                   *)

\* As Init, in a session that lets one more request be outstanding.
InitRace ==
  /\ vault \in Stores
  /\ remote = vault
  /\ build = "hash"
  /\ \/ /\ fileCache = CacheOf(vault)
        /\ fileHashCache = HashOf(vault)
     \/ /\ fileCache = EmptyCache
        /\ fileHashCache = EmptyCache
  /\ suppressedPaths = {}
  /\ connected = TRUE
  /\ inflight = {}
  /\ done = NoDone
  /\ QueueIdle
  /\ FlushIdle
  /\ AuxIdle
  /\ pc = "racing"
  /\ registered = TRUE

NextRace ==
  \/ \E p \in Paths, c \in Contents : LocalModifyA(p, c)
  \/ \E t \in inflight, res \in {"ok", "conflict", "error"} :
       \E wrote \in WriteOutcomes(t, res = "error") : RespondA(t, res, wrote)

SpecRace == InitRace /\ [][NextRace]_vars

-----------------------------------------------------------------------------
(* SpecSuppress: the user's own edits beside the sync engine's             *)
(* programmatic writes. The events of both reach the handlers of the       *)
(* subscribed hash-aware interceptor while paths are in the suppression    *)
(* set; the socket may drop while a write is under way.                    *)

\* The transport closes: SocketClient.connected reads false from now on.
SocketDrops ==
  /\ connected
  /\ connected' = FALSE
  /\ done' = NoDone
  /\ UNCHANGED <<vault, remote, fileCache, fileHashCache, suppressedPaths,
                 inflight, queueVars, lifeVars, auxVars>>

InitSuppress ==
  /\ vault \in Stores
  /\ remote \in Stores
  /\ build = "hash"
  /\ fileCache = CacheOf(vault)
  /\ fileHashCache = HashOf(vault)
  /\ suppressedPaths = {}
  /\ connected = TRUE
  /\ inflight = {}
  /\ done = NoDone
  /\ QueueIdle
  /\ FlushIdle
  /\ AuxIdle
  /\ pc = "ready"
  /\ registered = TRUE

\* A programmatic write is under way.
Writing == BagCardinality(writes) > 0

\* No programmatic write, and no request, is under way.
Quiet == ~Writing /\ inflight = {}

\* One programmatic write at a time (SpecGuard has them overlap); the
\* user's edits are followed while it is under way.
NextSuppress ==
  \/ \E p \in Paths : Quiet /\ OnFileUpdated(p)
  \/ \E t \in inflight, ok \in BOOLEAN : PullAnswered(t, ok)
  \/ \E p \in Paths : Quiet /\ DeleteLocalBegin(p)
  \/ \E w \in BagToSet(writes), ok \in BOOLEAN : VaultCall(w, ok)
  \/ \E w \in BagToSet(writes) : WriteReturns(w)
  \/ \E p \in Paths, c \in Contents : Writing /\ LocalModifyA(p, c)
  \/ \E p \in Paths, c \in Contents : Writing /\ LocalCreateA(p, c)
  \/ \E p \in Paths : Writing /\ LocalDeleteA(p)
  \/ \E o \in Paths, n \in Paths : Writing /\ LocalRenameA(o, n)
  \/ Writing /\ SocketDrops

SpecSuppress == InitSuppress /\ [][NextSuppress]_vars

-----------------------------------------------------------------------------
(* Properties *)

StructuralOps(q) == SelectSeq(q, LAMBDA o : ~IsContentOp(o))

ContentEntries(q, p) == {i \in 1..Len(q) : IsContentOp(q[i]) /\ q[i].path = p}

\* C7: after any sequence of enqueue and clear calls the queue holds at most
\* one modify/create entry per path, and the deletes and renames enqueued
\* since the last clear are all present, once each, in arrival order.
C7_QueueInvariant ==
  /\ \A p \in Paths : Cardinality(ContentEntries(ops, p)) <= 1
  /\ StructuralOps(ops) = StructuralOps(arrived)

\* C7 witness: two modifies of one path were coalesced around a delete that
\* arrived between them.
C7_Witness ==
  /\ Len(arrived) = 3
  /\ Len(ops) < Len(arrived)
  /\ Len(StructuralOps(ops)) >= 1
  /\ \E i \in 1..Len(arrived) : \E j \in 1..Len(arrived) :
       i < j /\ IsContentOp(arrived[i]) /\ IsContentOp(arrived[j])
         /\ arrived[i].path = arrived[j].path

\* C8: enqueuing a modify/create for a path that already has a modify/create
\* entry replaces that entry in place: same length, same position, newest
\* content, every other entry unchanged.
C8_CoalesceInPlace ==
  [][(arrived' = Append(arrived, lastOp') /\ IsContentOp(lastOp'))
       => \A i \in ContentEntries(ops, lastOp'.path) :
            /\ Len(ops') = Len(ops)
            /\ ops'[i] = lastOp'
            /\ \A j \in (1..Len(ops)) \ {i} : ops'[j] = ops[j]]_vars

\* C8 witness: Modify(p,"u"), Delete(p), Modify(p,"v") left the modify in
\* front of the delete with the newest content.
C8_Witness ==
  /\ Len(arrived) = 3
  /\ Len(ops) = 2
  /\ IsContentOp(arrived[1])
  /\ ~IsContentOp(arrived[2])
  /\ IsContentOp(lastOp)
  /\ arrived[1].content # lastOp.content
  /\ ops[1] = lastOp
  /\ ops[2] = arrived[2]

InQueue(q, op) == \E i \in 1..Len(q) : q[i] = op

\* The handler that has just finished handled a local mutation.
Handled(o) == done.op = o /\ done.op # "none"

KnownStateMatches(p) ==
  /\ fileCache[p] = CacheOf(vault)[p]
  /\ fileHashCache[p] = hashContent(vault[p])

\* C1 (original): when a handler has finished, the mutation is queued or
\* the local file and the known state agree (the remote accepted it and the
\* known state was updated, or the local state was reverted).
C1_OneOfThreeOutcomes ==
  \A o \in {"modify", "create", "delete", "rename"} :
    Handled(o)
      => \/ \E i \in 1..Len(ops) : done.path \in OpPaths(ops[i])
         \/ /\ KnownStateMatches(done.path)
            /\ KnownStateMatches(done.from)

C3_ConflictPulls ==
  (Handled("modify") /\ done.result = "conflict")
    => /\ done.outcome = "pulled"
            => /\ vault[done.path] = remote[done.path]
               /\ fileCache[done.path] = remote[done.path]
               /\ fileHashCache[done.path] = hashContent(remote[done.path])
       /\ done.outcome # "pulled"
            => /\ vault[done.path] = done.was
               /\ fileCache[done.path] = done.cached

\* C3 witness: the pull after a conflict has replaced the edited file by a
\* remote content that is not the content cached before.
C3_Witness ==
  /\ Handled("modify")
  /\ done.result = "conflict"
  /\ done.outcome = "pulled"
  /\ done.cached # None
  /\ vault[done.path] # done.cached
  /\ vault[done.path] = remote[done.path]
  /\ fileCache[done.path] = remote[done.path]

\* C4 (original, replay case): once the remote has accepted the replay of a
\* queued Modify/Create, the known-state content of its path is the content
\* just accepted.
C4_ReplayRecordsKnownState ==
  (pc = "flush" /\ sent # <<>> /\ Len(sent) \notin failed
     /\ IsContentOp(flushOps[Len(sent)]))
    => fileCache[flushOps[Len(sent)].path] = flushOps[Len(sent)].content

\* C9 (original): when every replay succeeds, replaying the coalesced queue
\* leaves the remote store as replaying every mutation in arrival order
\* would.
C9_CoalescedReplayEquivalent ==
  (pc = "flushed" /\ flushOps # <<>> /\ failed = {}
     /\ shadow # RejectedStore)
    => remote = shadow

\* C10: a failed replay does not stop the flush; every op is sent once, in
\* queue order; nothing is re-queued; the queue is empty when the flush
\* ends and the skip set holds the paths of the failed ops too.
C10_FlushSurvivesFailure ==
  /\ pc = "flush"
       => /\ ops = flushOps
          /\ Len(sent) = flushIdx - 1
          /\ \A i \in 1..Len(sent) : sent[i] = RequestOf(flushOps[i])
  /\ (pc = "flushed" /\ flushOps # <<>>)
       => /\ ops = <<>>
          /\ Len(sent) = Len(flushOps)
          /\ \A i \in 1..Len(sent) : sent[i] = RequestOf(flushOps[i])
          /\ \A i \in failed : OpPaths(flushOps[i]) \subseteq skipPaths

\* C10 witness: a flush has ended in which a replay failed and the op
\* after it was still sent and accepted.
C10_Witness ==
  /\ pc = "flushed"
  /\ ops = <<>>
  /\ \E i \in failed :
       /\ i < Len(flushOps)
       /\ (i + 1) \notin failed
       /\ Len(sent) = Len(flushOps)
       /\ OpPaths(flushOps[i]) \subseteq skipPaths

\* C5 (original): no queued operation is discarded between the disconnect
\* and the flush: a non-empty queue is emptied only by the flush that has
\* sent its operations.
C5_QueuedOpsReachFlush ==
  [][(ops # <<>> /\ ops' = <<>>)
       => (pc = "flush" /\ Len(sent) = Len(ops))]_vars

\* C11: while a programmatic write to a path is in progress the path is
\* suppressed -- also when two programmatic writes to the same path
\* overlap -- and no event caused by a programmatic write is forwarded to
\* the server by the interceptor.
C11_NoEcho ==
  /\ \A w \in BagToSet(writes) : isSuppressed(w.path)
  /\ echoed = {}

LocalMissing ==
  {p \in SyncPaths :
     isAllowed(p) /\ sync.before[p] # Absent /\ remote[p] = Absent}

C14_SkipSetUntouched ==
  \A p \in sync.skip :
    /\ vault[p] = sync.before[p]
    /\ p \notin sync.acted
    /\ fileCache[p] = None
    /\ \A e \in sync.qstore \ sync.qbefore : e.path # p

\* initialSync returned, having acted on another path, and left alone a
\* skipped path whose local file differs from the remote one
C14_Witness ==
  /\ sync.pc = "returned"
  /\ sync.acted # {}
  /\ \E p \in sync.skip : vault[p] # remote[p]

\* C15: a pullFile whose file-read fails or times out, or whose local write
\* is rejected, returns normally: the local file and the known state of the
\* path are what they were, and the path is not left suppressed (it is
\* suppressed only while another programmatic write to it is in progress).
C15_PullFailureLeavesState ==
  (done.op = "pull" /\ done.result \in {"error", "write-error"})
    => /\ done.outcome = "none"
       /\ vault[done.path] = done.was
       /\ fileCache[done.path] = done.cached
       /\ fileHashCache[done.path] = hashContent(done.cached)
       /\ isSuppressed(done.path)
            => \E w \in BagToSet(writes) : w.path = done.path

\* a pull whose local write was rejected has returned
C15_Witness ==
  /\ done.op = "pull"
  /\ done.result = "write-error"
  /\ vault[done.path] # done.content
  /\ ~isSuppressed(done.path)

\* the paths a request names
RequestPaths(r) ==
  IF r.req = "file-rename" THEN {r.oldPath, r.newPath} ELSE {r.path}

\* C16: the sync engine's reconciliation acts on a path (pull, delete,
\* record known state) only if isAllowed holds of it, and the interceptor
\* forwards a mutation only if isAllowed holds of every path it involves.
C16_PolicyAppliedIdentically ==
  /\ \A p \in sync.acted : isAllowed(p)
  /\ \A t \in inflight :
       t.handler \in {"modify", "create", "delete", "rename"}
         => \A p \in RequestPaths(t.request) : isAllowed(p)

\* C17: while the live-editing session owns a path, no local modify,
\* create, delete or rename of it makes the interceptor send a request or
\* enqueue an operation naming the path, write its local file or change
\* its known state.
C17_CollabOwnedUntouched ==
  /\ \A t \in inflight : RequestPaths(t.request) \cap collabPaths = {}
  /\ \A i \in 1..Len(ops) : OpPaths(ops[i]) \cap collabPaths = {}
  /\ done.op # "none" => {done.path, done.from} \cap collabPaths = {}

\* C18: when the file-create request for a locally created file fails
\* while connected, the new local file is deleted again and no known state
\* is recorded for its path; when it succeeds the known state is the
\* content with the server's hash, or else the computed content hash.
C18_CreateFailureUndone ==
  /\ (Handled("create") /\ done.result = "error")
       => /\ vault[done.path] = Absent
          /\ fileCache[done.path] = done.cached
  /\ (Handled("create") /\ done.result = "ok")
       => /\ fileCache[done.path] = done.content
          /\ fileHashCache[done.path] = hashContent(done.content)

\* C19: every request issued through SocketClient.request eventually
\* settles and settles exactly once: it resolves with the response, rejects
\* on an error response, or rejects when the timer fires before any
\* response; it never stays pending, and a response that arrives after the
\* timeout does not change the outcome.
C19_RequestSettlesOnce ==
  /\ [](\A i \in 1..Len(reqs) :
          /\ reqs[i].state = "resolved"
               => reqs[i].acked = "ok" /\ reqs[i].value = "response"
          /\ reqs[i].state = "rejected"
               => \/ reqs[i].acked = "error" /\ reqs[i].value = "server-error"
                  \/ reqs[i].timer = "fired" /\ reqs[i].value = "timed-out"
          /\ reqs[i].state = "pending"
               => reqs[i].acked = "none" /\ reqs[i].timer = "armed")
  /\ [][\A i \in 1..Len(reqs) :
          reqs[i].state # "pending"
            => /\ reqs'[i].state = reqs[i].state
               /\ reqs'[i].value = reqs[i].value]_vars
  /\ \A i \in 1..MaxRequests :
       (Len(reqs) >= i) ~> (Len(reqs) >= i /\ reqs[i].state # "pending")

\* a request timed out and its response arrived afterwards
C19_Witness ==
  \E i \in 1..Len(reqs) :
    /\ reqs[i].state = "rejected" /\ reqs[i].value = "timed-out"
    /\ reqs[i].acked = "ok" /\ reqs[i].calls = 2

\* C20: merge is commutative under canonicalization: for all canvas models
\* a and b, mergeCanvasModels(a, b) equals mergeCanvasModels(b, a).
C20_MergeCommutative ==
  canvas.pc = "merged"
    => canvas.result = mergeCanvasModels(canvas.incoming, canvas.base)

\* the entities of a list
entitiesOf(list) == {list[i] : i \in 1..Len(list)}

\* C21: when the two merged documents hold the same id, one as a tombstone
\* and the other as a live entity whose updatedAt is not greater than the
\* tombstone's, the merged document holds that id as a tombstone, whichever
\* document is passed as base and whichever as incoming.
C21_DeleteWins ==
  canvas.pc = "merged" =>
    \A kind \in {"nodes", "edges"} :
      \A b \in entitiesOf(canonicalizeCanvasModel(canvas.base)[kind]),
         c \in entitiesOf(canonicalizeCanvasModel(canvas.incoming)[kind]) :
        (/\ b.id = c.id
         /\ \/ b.deleted /\ ~c.deleted /\ c.updatedAt <= b.updatedAt
            \/ c.deleted /\ ~b.deleted /\ b.updatedAt <= c.updatedAt)
          => /\ \E r \in entitiesOf(canvas.result[kind]) : r.id = b.id
             /\ \A r \in entitiesOf(canvas.result[kind]) :
                  r.id = b.id => r.deleted

\* the tombstone is the base and the live entity, as old as the tombstone
\* and greater in serialised form, is the incoming one
C21_Witness ==
  /\ canvas.pc = "merged"
  /\ \E b \in entitiesOf(canonicalizeCanvasModel(canvas.base).nodes),
        c \in entitiesOf(canonicalizeCanvasModel(canvas.incoming).nodes) :
       /\ b.id = c.id /\ b.deleted /\ ~c.deleted
       /\ c.updatedAt = b.updatedAt
       /\ ~textGE(encodeEntity(b), encodeEntity(c))
       /\ \E r \in entitiesOf(canvas.result.nodes) : r.id = b.id /\ r.deleted

\* C22: merge is idempotent under canonicalization: for every document a,
\* malformed input and input with repeated ids included,
\* mergeCanvasModels(a, a) equals canonicalizeCanvasModel(a).
C22_MergeIdempotent ==
  canvas.pc = "merged" => canvas.result = canonicalizeCanvasModel(canvas.input)

\* C23: canonicalization is idempotent: for every input d,
\* canonicalizeCanvasModel(canonicalizeCanvasModel(d)) equals
\* canonicalizeCanvasModel(d).
C23_CanonicalizeIdempotent ==
  canvas.pc = "canonical" => canonicalizeCanvasModel(canvas.result) = canvas.result

\* a canonicalised list that repeats an id with different content and had
\* to be reordered and defaulted
C23_Witness ==
  /\ canvas.pc = "canonical"
  /\ \E i, j \in 1..Len(canvas.result.nodes) :
       /\ i < j
       /\ canvas.result.nodes[i].id = canvas.result.nodes[j].id
       /\ canvas.result.nodes[i] # canvas.result.nodes[j]
  /\ Len(canvas.result.nodes) < Len(canvas.input.nodes)
     \/ \E i \in 1..Len(canvas.input.nodes) : "deleted" \notin DOMAIN canvas.input.nodes[i]

\* the ids of a list are in ascending order
sortedById(list) ==
  \A i, j \in 1..Len(list) : i < j => idRank(list[i].id) <= idRank(list[j].id)

\* C24: parseCanvasModel(serializeCanvasModel(d)) has the node and edge
\* entities of the canonical form of d in the same ascending-id order (for a
\* canonical d, those of d itself), and the serialised text lists the
\* entities sorted by id whatever the order of the input.
C24_SerializeParseRoundTrip ==
  /\ canvas.pc = "reparsed"
       => /\ canvas.result.nodes = canonicalizeCanvasModel(canvas.input).nodes
          /\ canvas.result.edges = canonicalizeCanvasModel(canvas.input).edges
          /\ canvas.input = canonicalizeCanvasModel(canvas.input)
               => canvas.result = canvas.input
          /\ sortedById(canvas.result.nodes) /\ sortedById(canvas.result.edges)
  /\ canvas.pc = "serialized"
       => canvas.text = serializeCanvasModel(canonicalizeCanvasModel(canvas.input))

\* a document whose nodes were given in descending id order, one of them a
\* tombstone with a positive timestamp, has been serialised and parsed
C24_Witness ==
  /\ canvas.pc = "reparsed"
  /\ canvas.input # NotObject
  /\ "nodes" \in DOMAIN canvas.input
  /\ Len(canvas.input.nodes) = 2
  /\ \A i \in 1..2 : "id" \in DOMAIN canvas.input.nodes[i]
  /\ idRank(canvas.input.nodes[1].id) > idRank(canvas.input.nodes[2].id)
  /\ \E i \in 1..Len(canvas.result.nodes) :
       canvas.result.nodes[i].deleted /\ canvas.result.nodes[i].updatedAt > 0

\* the entity a list holds for an id, for lists that hold the id once
entityOf(list, id) == CHOOSE e \in entitiesOf(list) : e.id = id

\* pairs of entities of the two merged documents that share a kind, an id
\* and an updatedAt and differ in another field
TiedPairs ==
  {pair \in UNION {entitiesOf(canonicalizeCanvasModel(canvas.base)[kind])
                     \X entitiesOf(canonicalizeCanvasModel(canvas.incoming)[kind])
                   : kind \in {"nodes", "edges"}} :
     /\ pair[1].id = pair[2].id
     /\ pair[1].updatedAt = pair[2].updatedAt
     /\ pair[1] # pair[2]}

\* the greater of two entities by serialised form
serializedGreater(a, b) ==
  IF textGE(encodeEntity(a), encodeEntity(b)) THEN a ELSE b

usable(model) ==
  /\ {"nodes", "edges"} \subseteq DOMAIN model
  /\ \A kind \in {"nodes", "edges"} :
       /\ model[kind] # NotArray
       /\ \A e \in entitiesOf(model[kind]) :
            /\ {"id", "updatedAt", "deleted"} \subseteq DOMAIN e
            /\ e.id # ""
            /\ e.updatedAt \in Nat
            /\ e.deleted \in BOOLEAN
       /\ sortedById(model[kind])

\* the list a raw input holds under a key, as normalizeEntities reads it
rawList(input, kind) ==
  IF input = NotObject \/ kind \notin DOMAIN input THEN <<>>
  ELSE IF input[kind] = NotArray THEN <<>>
  ELSE input[kind]

\* C26: canonicalization and parsing never fail: for any input (no object,
\* a missing or non-array list, undecodable or blank text) the result is a
\* usable model, the empty one where the input cannot be read; items without
\* a non-empty string id are dropped and every other item is kept, a missing
\* updatedAt becomes 0 and a missing deleted becomes false; merging such
\* input returns a usable model as well.
C26_CanonicalizeNeverFails ==
  /\ canvas.pc \in {"canonical", "merged", "parsed", "reparsed"}
       => usable(canvas.result)
  /\ canvas.pc = "canonical"
       => \A kind \in {"nodes", "edges"} :
            LET kept == SelectSeq(rawList(canvas.input, kind),
                                  LAMBDA e : "id" \in DOMAIN e /\ e.id # "")
            IN  /\ Len(canvas.result[kind]) = Len(kept)
                /\ \A e \in entitiesOf(kept) :
                     \E r \in entitiesOf(canvas.result[kind]) :
                       /\ r.id = e.id
                       /\ r.updatedAt = IF "updatedAt" \in DOMAIN e
                                        THEN e.updatedAt ELSE 0
                       /\ r.deleted = IF "deleted" \in DOMAIN e
                                      THEN e.deleted ELSE FALSE
                       /\ \A k \in DOMAIN e : k \in DOMAIN r
  /\ (canvas.pc = "canonical" /\ canvas.input = NotObject)
       => canvas.result = EmptyCanvas
  /\ (canvas.pc = "parsed" /\ (canvas.text = <<>> \/ ~JSONparse(canvas.text).ok))
       => canvas.result = EmptyCanvas

\* a document whose node list is no array and whose edge list holds an item
\* without an id has been canonicalised
C26_Witness ==
  /\ canvas.pc = "canonical"
  /\ canvas.input # NotObject
  /\ "nodes" \in DOMAIN canvas.input
  /\ canvas.input.nodes = NotArray
  /\ \E e \in entitiesOf(canvas.input.edges) : "id" \notin DOMAIN e
  /\ \E e \in entitiesOf(canvas.input.edges) : "updatedAt" \notin DOMAIN e
                                                 /\ "id" \in DOMAIN e

\* C27: START_FOLLOW(u, mode) from any state yields pending_target with
\* target u; a TARGET_LOCATION while a target is set yields following_cursor
\* or following_viewport according to the mode chosen at START_FOLLOW and
\* stores the location; STOP_FOLLOW and DISCONNECT from any state yield
\* state off with targetUserId null and location null.
C27_FollowLifecycle ==
  done.op = "follow" =>
    /\ done.action.type = "START_FOLLOW"
         => /\ follow.state = "pending_target"
            /\ follow.targetUserId = done.action.userId
            /\ follow.mode = done.action.mode
    /\ (done.action.type = "TARGET_LOCATION" /\ hasTarget(done.prev))
         => /\ follow.state = IF done.prev.mode = "cursor"
                              THEN "following_cursor" ELSE "following_viewport"
            /\ follow.location = done.action.location
            /\ follow.targetUserId = done.prev.targetUserId
            /\ follow.mode = done.prev.mode
    /\ done.action.type \in {"STOP_FOLLOW", "DISCONNECT"}
         => /\ follow.state = "off"
            /\ follow.targetUserId = "null"
            /\ follow.location = "null"

\* a location of the target arrived while following in viewport mode after
\* a suspension
C27_Witness ==
  /\ done.op = "follow"
  /\ done.action.type = "TARGET_LOCATION"
  /\ done.prev.state = "suspended_target_missing"
  /\ follow.state = "following_viewport"

\* C28: TARGET_MISSING while a target is set yields
\* suspended_target_missing with the supplied reason and the same target and
\* mode; TARGET_MISSING and TARGET_LOCATION while no target is set leave the
\* state unchanged.
C28_SuspendOnTargetMissing ==
  done.op = "follow" =>
    /\ (done.action.type = "TARGET_MISSING" /\ hasTarget(done.prev))
         => /\ follow.state = "suspended_target_missing"
            /\ follow.reason = IF done.action.reason = "undefined"
                               THEN "target missing" ELSE done.action.reason
            /\ follow.targetUserId = done.prev.targetUserId
            /\ follow.mode = done.prev.mode
            /\ follow.location = done.prev.location
    /\ (done.action.type \in {"TARGET_MISSING", "TARGET_LOCATION"}
          /\ ~hasTarget(done.prev))
         => follow = done.prev

\* the target disappeared with reason "left" while it was being followed
C28_Witness ==
  /\ done.op = "follow"
  /\ done.action.type = "TARGET_MISSING"
  /\ done.prev.state = "following_viewport"
  /\ follow.state = "suspended_target_missing"
  /\ follow.reason = "left"

\* t is a modify push whose response is handled in this step, right after
\* the response of another modify push for the same path was handled while
\* t was in flight: the later-completing of two overlapping pushes.
CompletesLater(t) ==
  /\ t \in inflight
  /\ t.handler = "modify"
  /\ Handled("modify")
  /\ done.path = t.request.path
  /\ t \notin inflight'
  /\ done'.op = "modify"

\* A modify push leaves the requests in flight only through its own
\* response: accepted or failed (its handler ends), or rejected as a
\* conflict (its handler goes on to pull the file).
LeavesByOwnResponse(t) ==
  \/ /\ done'.op = "modify"
     /\ done'.path = t.request.path
     /\ done'.content = t.request.content
     /\ done'.result \in {"ok", "error"}
  \/ ConflictPull(t.request.path, t.request.content) \in inflight'

\* C29 (as stated): when two modify pushes for one path are in flight at
\* once, neither is aborted, and once both responses are handled the known
\* state of the path is the content and hash of the push whose response
\* completed later, whichever was issued later.
C29_LaterResponseWins ==
  [][\A t \in inflight :
       /\ (t.handler = "modify" /\ t \notin inflight')
            => LeavesByOwnResponse(t)
       /\ CompletesLater(t) =>
            /\ fileCache'[t.request.path] = t.request.content
            /\ fileHashCache'[t.request.path] = hashContent(t.request.content)
    ]_vars

\* C29 (amended): neither of two overlapping modify pushes is aborted; when
\* the response that completes later is a success the known state of the
\* path becomes the content and hash of that push, whichever was issued
\* later, and when it is a failure the known state stays as the earlier
\* response left it.
C29_LaterSuccessWins ==
  [][\A t \in inflight :
       /\ (t.handler = "modify" /\ t \notin inflight')
            => LeavesByOwnResponse(t)
       /\ CompletesLater(t) =>
            IF done'.result = "ok"
            THEN /\ fileCache'[t.request.path] = t.request.content
                 /\ fileHashCache'[t.request.path] =
                      hashContent(t.request.content)
            ELSE UNCHANGED <<fileCache, fileHashCache>>
    ]_vars

\* Both pushes were accepted and the one issued first completed last: the
\* known state is its content, while the file holds the later edit.
C29_Witness ==
  /\ Handled("modify")
  /\ done.result = "ok"
  /\ inflight = {}
  /\ fileCache[done.path] = done.content
  /\ fileHashCache[done.path] = hashContent(done.content)
  /\ vault[done.path] \notin {done.content, Absent}

\* The file-write requests that onModify sends in this step.
SentWrites ==
  {t \in inflight' \ inflight : t.handler = "modify"}

\* C30: the file-write request sent for a local modify while connected
\* carries as expectedHash the hash known for the path when it is sent
\* (none only when no hash is known), and once the push has succeeded the
\* known state of the path is the content that was sent with the hash the
\* remote returned for it.
C30_WriteCarriesKnownHash ==
  /\ [][\A t \in SentWrites :
          /\ t.request.req = "file-write"
          /\ t.request.path \in Paths
          /\ t.request.content = vault'[t.request.path]
          /\ t.request.expectedHash = fileHashCache[t.request.path]
       ]_vars
  /\ [](Handled("modify") /\ done.result = "ok" =>
          /\ fileCache[done.path] = done.content
          /\ fileHashCache[done.path] = hashContent(done.content))

\* A push has just succeeded while another, sent with a known hash, is
\* still in flight.
C30_Witness ==
  /\ Handled("modify")
  /\ done.result = "ok"
  /\ done.outcome = "accepted"
  /\ \E t \in inflight :
       /\ t.handler = "modify"
       /\ t.request.expectedHash # None

HandlerOps == {"modify", "create", "delete", "rename"}

\* The user's event of this step changes the file at p.
UserEventAt(p) == writes' = writes /\ vault'[p] # vault[p]

\* C31: each of the four mutation handlers checks suppression first: for
\* an event on a suppressed path (for rename, old or new path suppressed)
\* the handler sends no request, enqueues nothing, writes nothing to the
\* vault beyond the event itself, and leaves the known state and the
\* suppression set alone.
C31_SuppressedEventIgnored ==
  [][\A p \in suppressedPaths :
       /\ \A t \in inflight' \ inflight :
            t.handler \in HandlerOps => p \notin RequestPaths(t.request)
       /\ done'.op \in HandlerOps => (done'.path # p /\ done'.from # p)
       /\ UserEventAt(p) =>
            /\ done' = NoDone
            /\ UNCHANGED <<inflight, ops, arrived, fileCache, fileHashCache,
                           suppressedPaths, echoed>>
    ]_vars

\* The file at a suppressed path differs from what is known of it although
\* the write under way has not landed and nothing was sent: an event of
\* the user's was dropped by the suppression check, here with the socket
\* down, where the handler would else have undone the edit.
C31_Witness ==
  /\ ~connected
  /\ inflight = {}
  /\ echoed = {}
  /\ \A w \in BagToSet(writes) : w.state = "begun"
  /\ \E p \in suppressedPaths :
       fileCache[p] # (IF vault[p] = Absent THEN None ELSE vault[p])

\* The programmatic writes that begin, and that return, in this step.
BegunWrites == {w \in BagToSet(writes') : ~BagIn(w, writes)}
ReturnedWrites ==
  {w \in BagToSet(writes) :
     w.state # "begun" /\ CopiesIn(w, writes') < CopiesIn(w, writes)}

\* C32: every programmatic write (pullFile, deleteLocal, the interceptor's
\* offline undo) has its path in the suppression set from before the vault
\* call, and the path is out of the set once the write has finished,
\* carried out or rejected; while no programmatic write is under way the
\* suppression set is empty.
C32_SuppressionScoped ==
  /\ [][/\ \A w \in BegunWrites :
             w.state = "begun" => w.path \in suppressedPaths'
        /\ \A w \in ReturnedWrites : w.path \notin suppressedPaths'
        /\ (done'.op \in HandlerOps /\ done'.result = "offline") =>
             suppressedPaths' \cap {done'.path, done'.from} = {}
       ]_vars
  /\ [](BagCardinality(writes) = 0 => suppressedPaths = {})

\* A pull's vault call was rejected, the pull has returned, and nothing is
\* left in the suppression set.
C32_Witness ==
  /\ done.op = "pull"
  /\ done.result = "write-error"
  /\ BagCardinality(writes) = 0
  /\ suppressedPaths = {}

\* The manifest entries initialSync has to pull, by the claim: no local
\* file at the path, or a local content whose hash is not the entry's.
needsPull(v, r) ==
  {p \in SyncPaths :
     /\ r[p] # Absent
     /\ (v[p] = Absent \/ hashContent(v[p]) # hashContent(r[p]))}

PullsStarted ==
  (sync.toCreate \cup sync.toUpdate) \ (sync'.toCreate \cup sync'.toUpdate)

\* C34: in initialSync every local deletion and every quarantine move has
\* completed before the first pull is started: no pull starts while a file
\* is still queued for deletion or for quarantine.
C34_DeletesBeforePulls ==
  [][(sync.pc = "running" /\ PullsStarted # {}) =>
       /\ sync.toDelete = {}
       /\ sync.toQuarantine = {}
       /\ sync'.toDelete = {}
       /\ sync'.toQuarantine = {}
    ]_vars

\* A file was moved to the quarantine folder and, after it, a manifest
\* entry was pulled.
C34_Witness ==
  /\ sync.pc = "running"
  /\ sync.toQuarantine = {}
  /\ sync.qstore # sync.qbefore
  /\ \E q \in SyncPaths :
       /\ q \in sync.acted
       /\ sync.before[q] # remote[q]
       /\ vault[q] = remote[q]
       /\ remote[q] # Absent

\* C35 (as stated): the known state is invalidated on delete: once a local
\* delete was accepted by the remote, or a file-deleted / file-renamed push
\* was handled through deleteLocal -- whether or not the file was still
\* there locally --, the cache holds neither content nor hash for the path.
C35_KnownStateClearedOnDelete ==
  (\/ Handled("delete") /\ done.result = "ok"
   \/ Handled("deleteLocal"))
    => /\ fileCache[done.path] = None
       /\ fileHashCache[done.path] = None

\* The file-delete requests whose response is handled in this step.
AnsweredDeletes ==
  {t \in inflight \ inflight' : t.handler = "delete"}

\* C36: on a local delete while connected the known state of the path is
\* not touched when the request is sent; it is cleared when the remote has
\* accepted the delete; when the request fails the file is not created
\* again and the known state is left exactly as it was.
C36_DeleteClearsAfterSuccess ==
  [][/\ \A t \in inflight' \ inflight :
          t.handler = "delete" =>
            /\ vault'[t.request.path] = Absent
            /\ UNCHANGED <<fileCache, fileHashCache>>
     /\ \A t \in AnsweredDeletes :
          /\ done'.op = "delete"
          /\ done'.path = t.request.path
          /\ IF done'.result = "ok"
             THEN /\ fileCache'[t.request.path] = None
                  /\ fileHashCache'[t.request.path] = None
                  /\ \A q \in Paths \ {t.request.path} :
                       /\ fileCache'[q] = fileCache[q]
                       /\ fileHashCache'[q] = fileHashCache[q]
             ELSE UNCHANGED <<fileCache, fileHashCache>>
          /\ UNCHANGED vault
    ]_vars

\* A delete request has failed: the file stays deleted and the known state
\* of its path is still there.
C36_Witness ==
  /\ Handled("delete")
  /\ done.result = "error"
  /\ vault[done.path] = Absent
  /\ fileCache[done.path] # None
  /\ fileHashCache[done.path] # None

\* The file-rename requests whose response is handled in this step.
AnsweredRenames ==
  {t \in inflight \ inflight' : t.handler = "rename"}

\* C37 (as stated): once the remote has accepted a rename old -> new, the
\* known state of new is the known state old had before (content and hash)
\* and old has no known state; when the request fails the known state of
\* both paths is unchanged.
C37_RenameTransfersKnownState ==
  [][\A t \in AnsweredRenames :
       IF done'.result = "ok"
       THEN /\ fileCache'[t.request.newPath] = fileCache[t.request.oldPath]
            /\ fileHashCache'[t.request.newPath] =
                 fileHashCache[t.request.oldPath]
            /\ fileCache'[t.request.oldPath] = None
            /\ fileHashCache'[t.request.oldPath] = None
       ELSE UNCHANGED <<fileCache, fileHashCache>>
    ]_vars

\* pairs (base entity, incoming entity) of the two merged documents that
\* share a kind and an id, exactly one of them a tombstone
TombstonePairs ==
  UNION {{<<kind, b, c>> :
            b \in entitiesOf(canonicalizeCanvasModel(canvas.base)[kind]),
            c \in entitiesOf(canonicalizeCanvasModel(canvas.incoming)[kind])}
         : kind \in {"nodes", "edges"}}

\* C38: for an id on both sides with exactly one tombstone, an incoming
\* tombstone wins whatever the two timestamps are; against a base tombstone
\* the live incoming entity wins only when its updatedAt is strictly
\* greater, and else the tombstone is kept.
C38_TombstoneResolution ==
  canvas.pc = "merged" =>
    \A t \in TombstonePairs :
      LET kind == t[1]
          b == t[2]
          c == t[3]
      IN (b.id = c.id /\ b.deleted # c.deleted) =>
           entityOf(canvas.result[kind], b.id) =
             IF c.deleted THEN c
             ELSE IF c.updatedAt > b.updatedAt THEN c ELSE b

\* An incoming tombstone older than the live base entity has won.
C38_Witness ==
  /\ canvas.pc = "merged"
  /\ \E t \in TombstonePairs :
       /\ t[2].id = t[3].id
       /\ t[3].deleted /\ ~t[2].deleted
       /\ t[3].updatedAt < t[2].updatedAt
       /\ entityOf(canvas.result[t[1]], t[2].id) = t[3]

\* the ids of a list
idsOf(list) == {list[i].id : i \in 1..Len(list)}

\* C39: the merged list of each kind holds exactly the ids of both
\* inputs, each id once: an id of one side only with that side's entity
\* unchanged, an id of both sides with the result of resolveEntity(base
\* entity, incoming entity); the list is in ascending id order.
C39_MergeIsResolvedUnion ==
  canvas.pc = "merged" =>
    \A kind \in {"nodes", "edges"} :
      LET base == canonicalizeCanvasModel(canvas.base)[kind]
          incoming == canonicalizeCanvasModel(canvas.incoming)[kind]
          merged == canvas.result[kind]
      IN /\ idsOf(merged) = idsOf(base) \cup idsOf(incoming)
         /\ Len(merged) = Cardinality(idsOf(merged))
         /\ sortedById(merged)
         /\ \A id \in idsOf(merged) :
              entityOf(merged, id) =
                IF id \notin idsOf(incoming) THEN entityOf(base, id)
                ELSE IF id \notin idsOf(base) THEN entityOf(incoming, id)
                ELSE resolveEntity(entityOf(base, id), entityOf(incoming, id))

\* A merge of a base holding n2 with an incoming document holding n1 has
\* put n1 first, each entity as its side had it.
C39_Witness ==
  /\ canvas.pc = "merged"
  /\ LET base == canonicalizeCanvasModel(canvas.base).nodes
         incoming == canonicalizeCanvasModel(canvas.incoming).nodes
     IN /\ idsOf(base) = {"n2"}
        /\ idsOf(incoming) = {"n1"}
        /\ Len(canvas.result.nodes) = 2
        /\ canvas.result.nodes[1].id = "n1"

\* C40: in every state reachable from initialFollowState the state is off
\* exactly when targetUserId is null, and an off state stays off until the
\* next START_FOLLOW; so a RECONNECT after a DISCONNECT with no
\* START_FOLLOW in between yields off; and the controller's
\* onTargetLocation changes the held state only for a report about the
\* user who is the held target.
C40_OffIffNoTarget ==
  /\ [](follow.state = "off" <=> follow.targetUserId = "null")
  /\ [][(follow.state = "off" /\ follow'.state # "off") =>
          (done'.op = "follow" /\ done'.action.type = "START_FOLLOW")]_vars
  /\ []((done.op = "follow" /\ done.action.type = "RECONNECT"
           /\ done.prev.state = "off") => follow = initialFollowState)
  /\ []((done.op = "onTargetLocation"
           /\ done.userId # done.prev.targetUserId) => follow = done.prev)

\* While u1 was being followed a location of u2 was reported and ignored.
C40_Witness ==
  /\ done.op = "onTargetLocation"
  /\ done.prev.state \in {"following_cursor", "following_viewport"}
  /\ done.prev.targetUserId = "u1"
  /\ done.userId = "u2"
  /\ follow = done.prev
  /\ follow.reason = "null"
  /\ follow.location = "Notes/b.md"
  /\ done.location = "Notes/a.md"

====
